---- MODULE Spec2Model ----
(***************************************************************************)
(* The worker pool scheduler of maboo (package pool): Pool.Start, Exec,    *)
(* Stop, Reload, the watchdog (checkHealth, autoScale), replaceWorker and  *)
(* the Worker handle (Exec, ReadFrame, Stop, IsAlive), as a state machine  *)
(* of the goroutines the code starts.  One action is one step of one       *)
(* goroutine between two points where another goroutine can interleave.    *)
(***************************************************************************)
EXTENDS Integers, Sequences, FiniteSets, Bags, TLC

\* Bound: the number of operations the environment starts on the pool
\* (Exec invocations, watchdog ticks, Reload calls, Stop calls).
MaxOps == 3

\* The pool configurations explored (config.PoolConfig): min_workers,
\* max_workers, max_jobs, request_timeout (0: none).
Configs ==
    { [MinWorkers |-> 1, MaxWorkers |-> 1, MaxJobs |-> 0, RequestTimeout |-> 1],
      [MinWorkers |-> 1, MaxWorkers |-> 2, MaxJobs |-> 1, RequestTimeout |-> 1] }

\* WorkerState (iota order Idle, Busy, Stopped)
StateIdle == "Idle"
StateBusy == "Busy"
StateStopped == "Stopped"

\* protocol frame types a worker can put on its stdout
TypeResponse == "RESPONSE"
TypeError == "ERROR"
TypeWorkerReady == "WORKER_READY"
FrameTypes == {TypeResponse, TypeError, TypeWorkerReady}

\* the nil *Worker a receive from the closed channel yields
NilWorker == 0

VARIABLES
    cfg,            \* Pool.cfg
    workers,        \* Pool.workers: sequence of worker ids
    available,      \* Pool.available: the buffered contents of the channel
    closed,         \* Pool.available has been closed
    cancelled,      \* Pool.ctx is cancelled
    nextID,         \* Pool.nextID
    totalRequests,  \* Pool.totalRequests
    busyWorkers,    \* Pool.busyWorkers
    wstate,         \* Worker.state, per worker id
    jobs,           \* Worker.jobs, per worker id
    mu,             \* Worker.mu is held, per worker id
    proc,           \* the child process: "running", "stopping", "exited"
    execs,          \* bag of the Pool.Exec calls in progress
    tasks,          \* bag of background goroutines (replace, retire, drain, stop)
    wd,             \* the watchdog goroutine
    starter,        \* the Start call
    reloader,       \* the Reload call in progress
    panicked,       \* "no", or the runtime panic that ended the process
    ops,            \* operations started so far
    hist,           \* history: what the claims speak about
    wire,           \* the frame codec at work: a frame, its bytes, what was read
    config,         \* the Config that Load has read, and what Validate said
    watcher,        \* the file Watcher, and the files on disk it looks at
    manager,        \* the websocket Manager: clients, rooms, a broadcast in progress
    handler         \* the websocket Handler: its goroutines, the frames forwarded

vars == <<cfg, config, wire, manager, handler, watcher, workers, available, closed, cancelled, nextID, totalRequests,
          busyWorkers, wstate, jobs, mu, proc, execs, tasks, wd, starter,
          reloader, panicked, ops, hist>>

----------------------------------------------------------------------------
\* Helpers

SeqToSet(s) == { s[i] : i \in 1..Len(s) }

InSeq(x, s) == \E i \in 1..Len(s) : s[i] = x

Count(x, s) == Cardinality({ i \in 1..Len(s) : s[i] = x })

\* s without its first element equal to x (removeWorker's append(s[:i], s[i+1:]...))
RECURSIVE RemoveFirst(_, _)
RemoveFirst(x, s) ==
    IF s = <<>> THEN <<>>
    ELSE IF Head(s) = x THEN Tail(s)
    ELSE <<Head(s)>> \o RemoveFirst(x, Tail(s))

\* a background goroutine: what it runs, where it stands, the worker it
\* replaces or retires, the worker it spawned, the workers it has yet to
\* stop, and (Pool.Stop) the copy of p.workers it waits for
Task(kind, pc, old, new, todo) ==
    [kind |-> kind, pc |-> pc, old |-> old, new |-> new, todo |-> todo,
     snap |-> <<>>]

\* go p.replaceWorker(old)
ReplaceTask(old) == Task("replace", "stop", old, NilWorker, <<>>)

Go(t) == tasks (+) SetToBag({t})

\* one goroutine t moves on to t2
Step(t, t2) == (tasks (-) SetToBag({t})) (+) SetToBag({t2})

Exit(t) == tasks (-) SetToBag({t})

Running(t) == BagIn(t, tasks)

\* the codec is not at work
NoWire == <<>>

\* no Config is being loaded
NoConfig == <<>>

\* no file watcher is at work
NoWatcher == <<>>

\* no websocket Handler is serving
NoHandler == <<>>

\* connections that may be open at once
MaxConns == 3

\* connection ids (generateConnID draws 16 random bytes: an id that is in use
\* is not drawn again); NoConn is the "" that excludes nobody
ConnIds == 1..MaxConns

NoConn == 0

RoomNames == {"lobby", "chat"}

\* m.clients[id] does not exist
NoClient == [exists |-> FALSE, Rooms |-> {}]

\* m.rooms[room] does not exist
NoRoom == [exists |-> FALSE, members |-> {}]

\* no BroadcastToRoom call in progress.  Of a call: room, x its excludeID, at
\* the members of the room when it was called, todo its clients slice, sent
\* the sends attempted so far, in order
NoBroadcast ==
    [pc |-> "none", room |-> "", x |-> NoConn, at |-> {}, todo |-> {},
     sent |-> <<>>]

\* websocket.NewManager: no clients, no rooms
NewManager ==
    [clients |-> [c \in ConnIds |-> NoClient],
     rooms |-> [r \in RoomNames |-> NoRoom],
     bc |-> NoBroadcast]

\* no Reload call in progress.  Of a Reload call: pc where it stands, old its
\* oldWorkers, i its loop index, new the worker it is sending, spawned its
\* newWorkers
NoReload ==
    [pc |-> "none", old |-> <<>>, i |-> 0, new |-> NilWorker, spawned |-> <<>>]

----------------------------------------------------------------------------
\* pool.New: the state after construction

PoolNew ==
    /\ workers = <<>>
    /\ available = <<>>
    /\ closed = FALSE
    /\ cancelled = FALSE
    /\ nextID = 0
    /\ totalRequests = 0
    /\ busyWorkers = 0
    /\ wstate = <<>>
    /\ jobs = <<>>
    /\ mu = <<>>
    /\ proc = <<>>
    /\ execs = EmptyBag
    /\ tasks = EmptyBag
    /\ wd = [pc |-> "none", new |-> NilWorker]
    /\ starter = [pc |-> "spawn", i |-> 0]
    /\ reloader = NoReload
    /\ panicked = "no"
    /\ ops = 0
    /\ hist = [lastReturn |-> "none", notReady |-> {}, timedOut |-> {},
               stopsReturned |-> 0, rolledBack |-> {}, drained |-> {},
               acquired |-> 0]

InitPool ==
    /\ wire = NoWire /\ manager = NewManager /\ watcher = NoWatcher
    /\ handler = NoHandler
    /\ config = NoConfig
    /\ PoolNew

Init == cfg \in Configs /\ InitPool

Alive == panicked = "no"

Started == starter.pc = "done"

----------------------------------------------------------------------------
\* Worker

\* NewWorker, as spawnWorker uses it: the handle of a started process whose
\* first frame was WORKER_READY; state Idle, no jobs.
NewWorker(id) ==
    /\ wstate' = Append(wstate, StateIdle)
    /\ jobs' = Append(jobs, 0)
    /\ mu' = Append(mu, FALSE)
    /\ proc' = Append(proc, "running")

\* Pool.spawnWorker (a spawn that succeeds): the next id, the new handle
\* appended to p.workers.
spawnWorker ==
    /\ nextID' = nextID + 1
    /\ NewWorker(nextID + 1)
    /\ workers' = Append(workers, nextID + 1)

\* removeWorker that leaves p.workers as it is
keepWorker(w) == UNCHANGED workers

\* Pool.removeWorker
removeWorker(w) == workers' = RemoveFirst(w, workers)

\* Worker.Stop up to cmd.Wait: state Stopped, WORKER_STOP written, stdin
\* closed; the process then exits (ProcExit) and Stop returns.
WorkerStop(w) ==
    /\ wstate' = [wstate EXCEPT ![w] = StateStopped]
    /\ proc' = [proc EXCEPT ![w] = IF @ = "running" THEN "stopping" ELSE @]

\* Worker.Stop has returned: cmd.Wait saw the process exit (or it was killed
\* after the 5 s grace)
StopReturned(w) == proc[w] = "exited"

\* Worker.IsAlive: ProcessState is set by cmd.Wait, which only Stop calls
IsAlive(w) == proc[w] # "exited"

\* The process of a stopped worker exits; cmd.Wait closes the stdout pipe.
ProcExit(w) ==
    /\ Alive
    /\ proc[w] = "stopping"
    /\ proc' = [proc EXCEPT ![w] = "exited"]
    /\ UNCHANGED <<cfg, handler, config, watcher, manager, wire, workers, available, closed, cancelled, nextID,
                   totalRequests, busyWorkers, wstate, jobs, mu, execs, tasks,
                   wd, starter, reloader, panicked, ops, hist>>

\* needsRecycle that fires one job late
needsRecycleLate(n) == cfg.MaxJobs > 0 /\ n > cfg.MaxJobs

\* Pool.needsRecycle, of a worker whose w.Jobs() is n
needsRecycle(n) == cfg.MaxJobs > 0 /\ n >= cfg.MaxJobs

\* p.available <- w can proceed: the channel, of capacity MaxWorkers, has
\* room, or it is closed and the send panics
CanSend == closed \/ Len(available) < cfg.MaxWorkers

\* p.available <- w
Send(w) ==
    IF closed
    THEN /\ panicked' = "send on closed channel"
         /\ UNCHANGED available
    ELSE /\ available' = Append(available, w)
         /\ UNCHANGED panicked

\* a receive that leaves the worker in the channel
Peek(ch) == ch

\* w = <-p.available: what is left in the channel
Receive(ch) == Tail(ch)

----------------------------------------------------------------------------
\* Pool.Start: MinWorkers times spawnWorker and p.available <- w (nothing else
\* runs yet and MinWorkers <= MaxWorkers: the send finds room); after the last
\* one, go p.watchdog()
StartWorker ==
    /\ Alive
    /\ starter.pc = "spawn"
    /\ spawnWorker
    /\ available' = Append(available, nextID + 1)
    /\ IF starter.i + 1 < cfg.MinWorkers
       THEN /\ starter' = [starter EXCEPT !.i = @ + 1]
            /\ UNCHANGED wd
       ELSE /\ starter' = [pc |-> "done", i |-> starter.i + 1]
            /\ wd' = [wd EXCEPT !.pc = "wait"]
    /\ UNCHANGED <<cfg, handler, config, watcher, manager, wire, closed, cancelled, totalRequests, busyWorkers, execs,
                   tasks, reloader, panicked, ops, hist>>

----------------------------------------------------------------------------
\* Pool.Exec.  execs is the bag of the calls in progress; of a call e, pc is
\* where Pool.Exec stands, w the worker it received, tpc where its turn
\* goroutine (w.Exec) stands, resp the type of the frame the turn delivered.  A call leaves the bag when Pool.Exec has
\* returned and its turn goroutine has ended.

NewExec == [pc |-> "acquire", w |-> NilWorker, tpc |-> "none", resp |-> "none"]

Execs == BagToSet(execs)

\* the call e moves on to e2
ExecStep(e, e2) == (execs (-) SetToBag({e})) (+) SetToBag({e2})

\* Pool.Exec of the call e returns ret; the call stays while its turn
\* goroutine runs (turnEnded: it has ended, or never started)
Leave(e, turnEnded, ret) ==
    /\ execs' = IF turnEnded
                THEN execs (-) SetToBag({e})
                ELSE ExecStep(e, [e EXCEPT !.pc = "returned"])
    /\ hist' = [hist EXCEPT !.lastReturn = ret]

\* a return of a Pool.Exec that received a worker: the deferred
\* p.busyWorkers.Add(-1) runs
ReturnedWorker(e, turnEnded, ret) ==
    /\ Leave(e, turnEnded, ret)
    /\ busyWorkers' = busyWorkers - 1

\* a return before the select that runs the deferred p.busyWorkers.Add(-1)
ReturnedDeferred(e, turnEnded, ret) == ReturnedWorker(e, turnEnded, ret)

\* a return of a Pool.Exec before it received a worker: nothing is deferred
Returned(e, turnEnded, ret) ==
    /\ Leave(e, turnEnded, ret)
    /\ UNCHANGED busyWorkers

\* p.totalRequests.Add(1), then the select on the channel
ExecStart ==
    /\ Alive /\ Started
    /\ ops < MaxOps
    /\ ops' = ops + 1
    /\ totalRequests' = totalRequests + 1
    /\ execs' = execs (+) SetToBag({NewExec})
    /\ UNCHANGED <<cfg, handler, config, watcher, manager, wire, workers, available, closed, cancelled, nextID,
                   busyWorkers, wstate, jobs, mu, proc, tasks, wd, starter,
                   reloader, panicked, hist>>

\* case w = <-p.available: the first worker in the channel, or nil from the
\* closed and drained channel; p.busyWorkers.Add(1); go func() { w.Exec(req) }
ExecAcquire(e) ==
    /\ Alive
    /\ e.pc = "acquire"
    /\ available # <<>> \/ closed
    /\ available' = IF available # <<>> THEN Receive(available) ELSE available
    /\ busyWorkers' = busyWorkers + 1
    /\ execs' = ExecStep(e, [e EXCEPT !.pc = "wait", !.tpc = "lock",
                    !.w = IF available # <<>> THEN Head(available) ELSE NilWorker])
    /\ hist' = [hist EXCEPT !.acquired = @ + 1]
    /\ UNCHANGED <<cfg, handler, config, watcher, manager, wire, workers, closed, cancelled, nextID, totalRequests,
                   wstate, jobs, mu, proc, tasks, wd, starter, reloader,
                   panicked, ops>>

\* case <-time.After(AllocateTimeout): nothing arrived on the channel
ExecAllocTimeout(e) ==
    /\ Alive
    /\ e.pc = "acquire"
    /\ available = <<>> /\ ~closed
    /\ Returned(e, TRUE, "PoolExhausted")
    /\ UNCHANGED <<cfg, handler, config, watcher, manager, wire, workers, available, closed, cancelled, nextID,
                   totalRequests, wstate, jobs, mu, proc, tasks, wd, starter,
                   reloader, panicked, ops>>

\* case <-p.ctx.Done() of the first select
ExecShutdown(e) ==
    /\ Alive
    /\ e.pc = "acquire"
    /\ cancelled
    /\ Returned(e, TRUE, "Shutdown")
    /\ UNCHANGED <<cfg, handler, config, watcher, manager, wire, workers, available, closed, cancelled, nextID,
                   totalRequests, wstate, jobs, mu, proc, tasks, wd, starter,
                   reloader, panicked, ops>>

\* Worker.Exec: w.mu.Lock(); state Busy; WriteFrame(w.stdin, req).  On the
\* nil worker the lock dereferences nil.  The write fails when stdin is
\* closed (Stop was called).
TurnBegin(e) ==
    /\ Alive
    /\ e.tpc = "lock"
    /\ IF e.w = NilWorker
       THEN /\ panicked' = "nil pointer dereference"
            /\ UNCHANGED <<mu, wstate, execs>>
       ELSE /\ ~mu[e.w]
            /\ mu' = [mu EXCEPT ![e.w] = TRUE]
            /\ wstate' = [wstate EXCEPT ![e.w] = StateBusy]
            /\ execs' = ExecStep(e, [e EXCEPT !.tpc =
                            IF proc[e.w] = "running" THEN "read" ELSE "wfail"])
            /\ UNCHANGED panicked
    /\ UNCHANGED <<cfg, handler, config, watcher, manager, wire, workers, available, closed, cancelled, nextID,
                   totalRequests, busyWorkers, jobs, proc, tasks, wd, starter,
                   reloader, ops, hist>>

\* What a read on w's stdout can yield: a frame the process wrote, or an
\* error (EOF, bad magic, bad version); only an error once the pipe is closed.
ReadOutcomes(w) == IF proc[w] = "exited" THEN {"err"} ELSE FrameTypes \cup {"err"}

\* What Pool.Exec does with the turn's result (lines 120-129) on a worker
\* with n jobs: an error replaces the worker, a worker that needs recycling
\* is replaced, otherwise Pool.Exec goes on to read WORKER_READY.  Worker.Exec
\* returns any frame it read, whatever its type, without an error.
AfterTurn(outcome, n) ==
    IF outcome = "err" THEN "error"
    ELSE IF needsRecycle(n) THEN "recycle"
    ELSE "ready"

\* Worker.Exec ends: the write failed, or ReadFrame(w.stdout) returned; the
\* deferred state Idle, jobs + 1, unlock; done <- result.  A Pool.Exec still
\* in its select receives the result (case result := <-done) and acts on it.
TurnFinish(e, outcome) ==
    /\ Alive
    /\ e.tpc \in {"read", "wfail"}
    /\ outcome \in (IF e.tpc = "wfail" THEN {"err"} ELSE ReadOutcomes(e.w))
    /\ wstate' = [wstate EXCEPT ![e.w] = StateIdle]
    /\ jobs' = [jobs EXCEPT ![e.w] = @ + 1]
    /\ mu' = [mu EXCEPT ![e.w] = FALSE]
    /\ LET after == AfterTurn(outcome, jobs[e.w] + 1)
       IN  IF e.pc = "returned"
           THEN /\ execs' = execs (-) SetToBag({e})
                /\ UNCHANGED <<tasks, busyWorkers, hist>>
           ELSE IF after = "ready"
           THEN /\ execs' = ExecStep(e, [e EXCEPT !.tpc = "done", !.pc = "ready",
                                                   !.resp = outcome])
                /\ UNCHANGED <<tasks, busyWorkers, hist>>
           ELSE /\ tasks' = Go(ReplaceTask(e.w))
                /\ ReturnedWorker(e, TRUE, IF after = "error" THEN "WorkerError"
                                                              ELSE outcome)
    /\ UNCHANGED <<cfg, handler, config, watcher, manager, wire, workers, available, closed, cancelled, nextID,
                   totalRequests, proc, wd, starter, reloader, panicked, ops>>

\* a timeout after which Pool.Exec goes on to the post-response read
TimeoutFallThrough(e) == [e EXCEPT !.pc = "ready"]

\* return nil, fmt.Errorf("request timeout after %s"): Pool.Exec is over, its
\* turn goroutine is not
TimeoutReturn(e) == [e EXCEPT !.pc = "returned"]

\* case <-time.After(RequestTimeout): the turn has not delivered
ExecRequestTimeout(e) ==
    /\ Alive
    /\ e.pc = "wait"
    /\ cfg.RequestTimeout > 0
    /\ e.tpc # "done"
    /\ IF e.w = NilWorker
       THEN \* w.ID() on the nil worker
            /\ panicked' = "nil pointer dereference"
            /\ UNCHANGED <<tasks, execs, busyWorkers, hist>>
       ELSE /\ tasks' = Go(ReplaceTask(e.w))
            /\ execs' = ExecStep(e, TimeoutReturn(e))
            /\ busyWorkers' = busyWorkers - 1
            /\ hist' = [hist EXCEPT !.lastReturn = "RequestTimeout",
                                    !.timedOut = @ \cup {e.w}]
            /\ UNCHANGED panicked
    /\ UNCHANGED <<cfg, handler, config, watcher, manager, wire, workers, available, closed, cancelled, nextID,
                   totalRequests, wstate, jobs, mu, proc, wd, starter,
                   reloader, ops>>

\* case <-p.ctx.Done() of the second select: the worker is dropped
ExecCtxDone(e) ==
    /\ Alive
    /\ e.pc = "wait"
    /\ cfg.RequestTimeout > 0
    /\ cancelled
    /\ ReturnedWorker(e, FALSE, "Shutdown")
    /\ UNCHANGED <<cfg, handler, config, watcher, manager, wire, workers, available, closed, cancelled, nextID,
                   totalRequests, wstate, jobs, mu, proc, tasks, wd, starter,
                   reloader, panicked, ops>>

\* a test that takes any frame for WORKER_READY
IsFrame(outcome) == outcome # "err"

\* !(err != nil || ready.Type != protocol.TypeWorkerReady)
IsReady(outcome) == outcome = TypeWorkerReady

\* ready, err := w.ReadFrame(): WORKER_READY sends the worker back to the
\* channel (p.available <- w, which waits while the channel is full),
\* anything else replaces it; return resp, nil
ExecReadReady(e, outcome) ==
    /\ Alive
    /\ e.pc = "ready"
    /\ outcome \in ReadOutcomes(e.w)
    /\ LET seen == IF outcome = TypeWorkerReady THEN hist.notReady
                   ELSE hist.notReady \cup {e.w}
       IN  IF ~IsReady(outcome)
           THEN /\ tasks' = Go(ReplaceTask(e.w))
                /\ execs' = execs (-) SetToBag({e})
                /\ busyWorkers' = busyWorkers - 1
                /\ hist' = [hist EXCEPT !.lastReturn = e.resp,
                                        !.notReady = seen]
                /\ UNCHANGED <<available, panicked>>
           ELSE IF CanSend
           THEN /\ Send(e.w)
                /\ IF closed
                   THEN UNCHANGED <<execs, busyWorkers, hist>>
                   ELSE /\ execs' = execs (-) SetToBag({e})
                        /\ busyWorkers' = busyWorkers - 1
                        /\ hist' = [hist EXCEPT !.lastReturn = e.resp,
                                                !.notReady = seen]
                /\ UNCHANGED tasks
           ELSE /\ execs' = ExecStep(e, [e EXCEPT !.pc = "enqueue"])
                /\ hist' = [hist EXCEPT !.notReady = seen]
                /\ UNCHANGED <<tasks, busyWorkers, available, panicked>>
    /\ UNCHANGED <<cfg, handler, config, watcher, manager, wire, workers, closed, cancelled, nextID, totalRequests,
                   wstate, jobs, mu, proc, wd, starter, reloader, ops>>

\* p.available <- w that had to wait for room; return resp, nil
ExecEnqueue(e) ==
    /\ Alive
    /\ e.pc = "enqueue"
    /\ CanSend
    /\ Send(e.w)
    /\ IF closed
       THEN UNCHANGED <<execs, busyWorkers, hist>>
       ELSE ReturnedWorker(e, TRUE, e.resp)
    /\ UNCHANGED <<cfg, handler, config, watcher, manager, wire, workers, closed, cancelled, nextID, totalRequests,
                   wstate, jobs, mu, proc, tasks, wd, starter, reloader, ops>>

----------------------------------------------------------------------------
\* Pool.replaceWorker(old), as a goroutine t of kind "replace"

\* old.Stop()
ReplaceStop(t) ==
    /\ Alive
    /\ Running(t) /\ t.kind = "replace" /\ t.pc = "stop"
    /\ WorkerStop(t.old)
    /\ tasks' = Step(t, [t EXCEPT !.pc = "remove"])
    /\ UNCHANGED <<cfg, handler, config, watcher, manager, wire, workers, available, closed, cancelled, nextID,
                   totalRequests, busyWorkers, jobs, mu, execs, wd, starter,
                   reloader, panicked, ops, hist>>

\* old.Stop() returned; p.removeWorker(old); if p.ctx.Err() != nil return
ReplaceRemove(t) ==
    /\ Alive
    /\ Running(t) /\ t.kind = "replace" /\ t.pc = "remove"
    /\ StopReturned(t.old)
    /\ removeWorker(t.old)
    /\ tasks' = IF cancelled THEN Exit(t) ELSE Step(t, [t EXCEPT !.pc = "spawn"])
    /\ UNCHANGED <<cfg, handler, config, watcher, manager, wire, available, closed, cancelled, nextID, totalRequests,
                   busyWorkers, wstate, jobs, mu, proc, execs, wd, starter,
                   reloader, panicked, ops, hist>>

\* w, err := p.spawnWorker(); p.available <- w (which waits while the
\* channel is full)
ReplaceSpawn(t) ==
    /\ Alive
    /\ Running(t) /\ t.kind = "replace" /\ t.pc = "spawn"
    /\ spawnWorker
    /\ IF CanSend
       THEN /\ Send(nextID + 1)
            /\ tasks' = Exit(t)
       ELSE /\ tasks' = Step(t, [t EXCEPT !.pc = "enqueue", !.new = nextID + 1])
            /\ UNCHANGED <<available, panicked>>
    /\ UNCHANGED <<cfg, handler, config, watcher, manager, wire, closed, cancelled, totalRequests, busyWorkers, execs,
                   wd, starter, reloader, ops, hist>>

\* p.available <- w that had to wait for room
ReplaceEnqueue(t) ==
    /\ Alive
    /\ Running(t) /\ t.kind = "replace" /\ t.pc = "enqueue"
    /\ CanSend
    /\ Send(t.new)
    /\ tasks' = Exit(t)
    /\ UNCHANGED <<cfg, handler, config, watcher, manager, wire, workers, closed, cancelled, nextID, totalRequests,
                   busyWorkers, wstate, jobs, mu, proc, execs, wd, starter,
                   reloader, ops, hist>>

----------------------------------------------------------------------------
\* Pool.watchdog: checkHealth, then autoScale, on every tick

\* checkHealth over a copy of p.workers: every worker that is not Busy and
\* not alive gets a go p.replaceWorker(w)
RECURSIVE checkHealth(_, _)
checkHealth(ws, bag) ==
    IF ws = <<>> THEN bag
    ELSE checkHealth(Tail(ws),
            IF wstate[Head(ws)] # StateBusy /\ ~IsAlive(Head(ws))
            THEN bag (+) SetToBag({ReplaceTask(Head(ws))})
            ELSE bag)

\* case <-ticker.C: p.checkHealth()
WatchdogTick ==
    /\ Alive
    /\ wd.pc = "wait"
    /\ ops < MaxOps
    /\ ops' = ops + 1
    /\ tasks' = checkHealth(workers, tasks)
    /\ wd' = [wd EXCEPT !.pc = "scale"]
    /\ UNCHANGED <<cfg, handler, config, watcher, manager, wire, workers, available, closed, cancelled, nextID,
                   totalRequests, busyWorkers, wstate, jobs, mu, proc, execs,
                   starter, reloader, panicked, hist>>

\* case <-p.ctx.Done(): return
WatchdogExit ==
    /\ Alive
    /\ wd.pc = "wait"
    /\ cancelled
    /\ wd' = [wd EXCEPT !.pc = "exited"]
    /\ UNCHANGED <<cfg, handler, config, watcher, manager, wire, workers, available, closed, cancelled, nextID,
                   totalRequests, busyWorkers, wstate, jobs, mu, proc, execs,
                   tasks, starter, reloader, panicked, ops, hist>>

\* a scale-down test that does not look at the busy ratio
ScaleDownAnyRatio(total, busy) == total > 0 /\ total > cfg.MinWorkers

\* autoScale's conditions on stats := p.Stats(); busyPct is
\* busy / total * 100
ScaleUp(total, busy) ==
    total > 0 /\ busy * 100 >= 80 * total /\ total < cfg.MaxWorkers

ScaleDown(total, busy) ==
    total > 0 /\ busy * 100 <= 20 * total /\ total > cfg.MinWorkers

\* autoScale, scale up: w, err := p.spawnWorker()
AutoScaleUp ==
    /\ Alive
    /\ wd.pc = "scale"
    /\ ScaleUp(Len(workers), busyWorkers)
    /\ spawnWorker
    /\ wd' = [wd EXCEPT !.pc = "enqueue", !.new = nextID + 1]
    /\ UNCHANGED <<cfg, handler, config, watcher, manager, wire, available, closed, cancelled, totalRequests,
                   busyWorkers, execs, tasks, starter, reloader, panicked,
                   ops, hist>>

\* autoScale, scale up: p.available <- w
AutoScaleEnqueue ==
    /\ Alive
    /\ wd.pc = "enqueue"
    /\ CanSend
    /\ Send(wd.new)
    /\ wd' = [wd EXCEPT !.pc = "wait", !.new = NilWorker]
    /\ UNCHANGED <<cfg, handler, config, watcher, manager, wire, workers, closed, cancelled, nextID, totalRequests,
                   busyWorkers, wstate, jobs, mu, proc, execs, tasks, starter,
                   reloader, ops, hist>>

\* autoScale, scale down: select { case w := <-p.available: go func() {
\* w.Stop(); p.removeWorker(w) }; default: }.  The closed, drained channel
\* yields the nil worker, and w.Stop() dereferences it.
AutoScaleDown ==
    /\ Alive
    /\ wd.pc = "scale"
    /\ ScaleDown(Len(workers), busyWorkers)
    /\ IF available # <<>>
       THEN /\ available' = Receive(available)
            /\ tasks' = Go(Task("retire", "stop", Head(available), NilWorker, <<>>))
            /\ wd' = [wd EXCEPT !.pc = "wait"]
            /\ UNCHANGED panicked
       ELSE IF closed
       THEN /\ panicked' = "nil pointer dereference"
            /\ UNCHANGED <<available, tasks, wd>>
       ELSE /\ wd' = [wd EXCEPT !.pc = "wait"]
            /\ UNCHANGED <<available, tasks, panicked>>
    /\ UNCHANGED <<cfg, handler, config, watcher, manager, wire, workers, closed, cancelled, nextID, totalRequests,
                   busyWorkers, wstate, jobs, mu, proc, execs, starter,
                   reloader, ops, hist>>

\* autoScale: neither condition holds
AutoScaleNone ==
    /\ Alive
    /\ wd.pc = "scale"
    /\ ~ScaleUp(Len(workers), busyWorkers)
    /\ ~ScaleDown(Len(workers), busyWorkers)
    /\ wd' = [wd EXCEPT !.pc = "wait"]
    /\ UNCHANGED <<cfg, handler, config, watcher, manager, wire, workers, available, closed, cancelled, nextID,
                   totalRequests, busyWorkers, wstate, jobs, mu, proc, execs,
                   tasks, starter, reloader, panicked, ops, hist>>

\* autoScale's goroutine: w.Stop()
RetireStop(t) ==
    /\ Alive
    /\ Running(t) /\ t.kind = "retire" /\ t.pc = "stop"
    /\ WorkerStop(t.old)
    /\ tasks' = Step(t, [t EXCEPT !.pc = "remove"])
    /\ UNCHANGED <<cfg, handler, config, watcher, manager, wire, workers, available, closed, cancelled, nextID,
                   totalRequests, busyWorkers, jobs, mu, execs, wd, starter,
                   reloader, panicked, ops, hist>>

\* autoScale's goroutine: p.removeWorker(w)
RetireRemove(t) ==
    /\ Alive
    /\ Running(t) /\ t.kind = "retire" /\ t.pc = "remove"
    /\ StopReturned(t.old)
    /\ removeWorker(t.old)
    /\ tasks' = Exit(t)
    /\ UNCHANGED <<cfg, handler, config, watcher, manager, wire, available, closed, cancelled, nextID, totalRequests,
                   busyWorkers, wstate, jobs, mu, proc, execs, wd, starter,
                   reloader, panicked, ops, hist>>

----------------------------------------------------------------------------
\* Pool.Reload

\* oldWorkers := copy of p.workers
ReloadStart ==
    /\ Alive /\ Started
    /\ reloader.pc = "none"
    /\ ops < MaxOps
    /\ ops' = ops + 1
    /\ reloader' = [NoReload EXCEPT !.pc = "spawn", !.old = workers]
    /\ UNCHANGED <<cfg, handler, config, watcher, manager, wire, workers, available, closed, cancelled, nextID,
                   totalRequests, busyWorkers, wstate, jobs, mu, proc, execs,
                   tasks, wd, starter, panicked, hist>>

\* Reload has sent its i-th new worker: after MinWorkers of them it starts
\* the drain goroutine over oldWorkers and returns
ReloadSent(r) ==
    IF r.i + 1 < cfg.MinWorkers
    THEN /\ reloader' = [r EXCEPT !.pc = "spawn", !.i = @ + 1, !.new = NilWorker]
         /\ UNCHANGED tasks
    ELSE /\ reloader' = NoReload
         /\ tasks' = IF r.old = <<>> THEN tasks
                     ELSE Go([Task("drain", "wait", NilWorker, NilWorker, r.old)
                                 EXCEPT !.snap = r.old])

\* w, err := p.spawnWorker(); p.available <- w (which waits while the
\* channel is full)
ReloadSpawn ==
    /\ Alive
    /\ reloader.pc = "spawn"
    /\ spawnWorker
    /\ IF CanSend
       THEN /\ Send(nextID + 1)
            /\ IF closed THEN UNCHANGED <<reloader, tasks>>
               ELSE ReloadSent([reloader EXCEPT !.spawned = Append(@, nextID + 1)])
       ELSE /\ reloader' = [reloader EXCEPT !.pc = "enqueue", !.new = nextID + 1,
                                            !.spawned = Append(@, nextID + 1)]
            /\ UNCHANGED <<available, panicked, tasks>>
    /\ UNCHANGED <<cfg, handler, config, watcher, manager, wire, closed, cancelled, totalRequests, busyWorkers, execs,
                   wd, starter, ops, hist>>

\* p.available <- w that had to wait for room
ReloadEnqueue ==
    /\ Alive
    /\ reloader.pc = "enqueue"
    /\ CanSend
    /\ Send(reloader.new)
    /\ IF closed THEN UNCHANGED <<reloader, tasks>> ELSE ReloadSent(reloader)
    /\ UNCHANGED <<cfg, handler, config, watcher, manager, wire, workers, closed, cancelled, nextID, totalRequests,
                   busyWorkers, wstate, jobs, mu, proc, execs, wd, starter,
                   ops, hist>>

\* the drain goroutine: for w.State() == StateBusy { sleep }; w.Stop()
DrainStop(t) ==
    /\ Alive
    /\ Running(t) /\ t.kind = "drain" /\ t.pc = "wait"
    /\ wstate[Head(t.todo)] # StateBusy
    /\ WorkerStop(Head(t.todo))
    /\ tasks' = Step(t, [t EXCEPT !.pc = "remove"])
    /\ UNCHANGED <<cfg, handler, config, watcher, manager, wire, workers, available, closed, cancelled, nextID,
                   totalRequests, busyWorkers, jobs, mu, execs, wd, starter,
                   reloader, panicked, ops, hist>>

\* the drain goroutine: w.Stop() returned; p.removeWorker(w); next old worker
DrainRemove(t) ==
    /\ Alive
    /\ Running(t) /\ t.kind = "drain" /\ t.pc = "remove"
    /\ StopReturned(Head(t.todo))
    /\ removeWorker(Head(t.todo))
    /\ IF Tail(t.todo) = <<>>
       THEN /\ tasks' = Exit(t)
            /\ hist' = [hist EXCEPT !.drained = @ \cup SeqToSet(t.snap)]
       ELSE /\ tasks' = Step(t, [t EXCEPT !.pc = "wait", !.todo = Tail(@)])
            /\ UNCHANGED hist
    /\ UNCHANGED <<cfg, handler, config, watcher, manager, wire, available, closed, cancelled, nextID, totalRequests,
                   busyWorkers, wstate, jobs, mu, proc, execs, wd, starter,
                   reloader, panicked, ops>>

----------------------------------------------------------------------------
\* Pool.Stop

\* p.cancel(); workers := copy of p.workers; one goroutine per worker
PoolStop ==
    /\ Alive /\ Started
    /\ ops < MaxOps
    /\ ops' = ops + 1
    /\ cancelled' = TRUE
    /\ tasks' = Go([Task("stop", "stopping", NilWorker, NilWorker, workers)
                       EXCEPT !.snap = workers])
    /\ UNCHANGED <<cfg, handler, config, watcher, manager, wire, workers, available, closed, nextID, totalRequests,
                   busyWorkers, wstate, jobs, mu, proc, execs, wd, starter,
                   reloader, panicked, hist>>

\* one of Stop's goroutines: w.Stop()
PoolStopWorker(t, i) ==
    /\ Alive
    /\ Running(t) /\ t.kind = "stop"
    /\ i \in 1..Len(t.todo)
    /\ WorkerStop(t.todo[i])
    /\ tasks' = Step(t, [t EXCEPT !.todo = SubSeq(@, 1, i - 1) \o SubSeq(@, i + 1, Len(@))])
    /\ UNCHANGED <<cfg, handler, config, watcher, manager, wire, workers, available, closed, cancelled, nextID,
                   totalRequests, busyWorkers, jobs, mu, execs, wd, starter,
                   reloader, panicked, ops, hist>>

\* close(p.available); return nil.  Closing a closed channel panics.
CloseAvailable ==
    IF closed
    THEN /\ panicked' = "close of closed channel"
         /\ UNCHANGED <<closed, hist>>
    ELSE /\ closed' = TRUE
         /\ hist' = [hist EXCEPT !.stopsReturned = @ + 1]
         /\ UNCHANGED panicked

\* wg.Wait() is over: every w.Stop() returned; close(p.available)
PoolStopClose(t) ==
    /\ Alive
    /\ Running(t) /\ t.kind = "stop"
    /\ t.todo = <<>>
    /\ \A w \in SeqToSet(t.snap) : StopReturned(w)
    /\ CloseAvailable
    /\ tasks' = Exit(t)
    /\ UNCHANGED <<cfg, handler, config, watcher, manager, wire, workers, available, cancelled, nextID, totalRequests,
                   busyWorkers, wstate, jobs, mu, proc, execs, wd, starter,
                   reloader, ops>>

----------------------------------------------------------------------------

Tasks == BagToSet(tasks)

WorkerIds == 1..nextID

Outcomes == FrameTypes \cup {"err"}

\* every operation but Pool.Stop
NextRun ==
    \/ StartWorker
    \/ ExecStart
    \/ \E e \in Execs : ExecAcquire(e)
    \/ \E e \in Execs : ExecAllocTimeout(e)
    \/ \E e \in Execs : TurnBegin(e)
    \/ \E e \in Execs, o \in Outcomes : TurnFinish(e, o)
    \/ \E e \in Execs : ExecRequestTimeout(e)
    \/ \E e \in Execs, o \in Outcomes : ExecReadReady(e, o)
    \/ \E e \in Execs : ExecEnqueue(e)
    \/ \E t \in Tasks : ReplaceStop(t)
    \/ \E t \in Tasks : ReplaceRemove(t)
    \/ \E t \in Tasks : ReplaceSpawn(t)
    \/ \E t \in Tasks : ReplaceEnqueue(t)
    \/ \E w \in WorkerIds : ProcExit(w)
    \/ WatchdogTick
    \/ AutoScaleUp
    \/ AutoScaleEnqueue
    \/ AutoScaleDown
    \/ AutoScaleNone
    \/ \E t \in Tasks : RetireStop(t)
    \/ \E t \in Tasks : RetireRemove(t)
    \/ ReloadStart
    \/ ReloadSpawn
    \/ ReloadEnqueue
    \/ \E t \in Tasks : DrainStop(t)
    \/ \E t \in Tasks : DrainRemove(t)

\* the pool while it runs: Start, Exec, Reload, the watchdog, replacements
SpecRun == Init /\ [][NextRun]_vars

Next ==
    \/ NextRun
    \/ \E e \in Execs : ExecShutdown(e)
    \/ \E e \in Execs : ExecCtxDone(e)
    \/ WatchdogExit
    \/ PoolStop
    \/ \E t \in Tasks : \E i \in 1..Len(t.todo) : PoolStopWorker(t, i)
    \/ \E t \in Tasks : PoolStopClose(t)

\* the pool with Stop
Spec == Init /\ [][Next]_vars

----------------------------------------------------------------------------
\* Fairness: every goroutine of the pool that can take a step is scheduled, and
\* every timer fires.  What a worker process writes on its stdout, and when,
\* is up to the worker: the two reads (TurnFinish, ExecReadReady) are under
\* fairness only where they fail at once, on a closed pipe.
PoolStep ==
    \/ StartWorker
    \/ \E e \in Execs : TurnFinish(e, "err") /\ e.tpc = "wfail"
    \/ \E e \in Execs : TurnFinish(e, "err") /\ proc[e.w] = "exited"
    \/ \E e \in Execs : ExecReadReady(e, "err") /\ proc[e.w] = "exited"
    \/ \E e \in Execs : ExecAcquire(e) \/ ExecAllocTimeout(e)
    \/ \E e \in Execs : TurnBegin(e)
    \/ \E e \in Execs : ExecRequestTimeout(e)
    \/ \E e \in Execs : ExecEnqueue(e)
    \/ \E t \in Tasks : ReplaceStop(t) \/ ReplaceRemove(t) \/ ReplaceSpawn(t)
                           \/ ReplaceEnqueue(t)
    \/ \E w \in WorkerIds : ProcExit(w)
    \/ AutoScaleUp \/ AutoScaleEnqueue \/ AutoScaleDown \/ AutoScaleNone
    \/ \E t \in Tasks : RetireStop(t) \/ RetireRemove(t)
    \/ ReloadSpawn \/ ReloadEnqueue
    \/ \E t \in Tasks : DrainStop(t) \/ DrainRemove(t)

\* the running pool under fair scheduling
FairRun == SpecRun /\ WF_vars(PoolStep)

----------------------------------------------------------------------------
\* Claims

\* the worker w is held by a Pool.Exec: taken from the channel, and neither
\* sent back nor handed to replaceWorker yet
Held(w) == \E e \in Execs : e.w = w /\ e.pc \in {"wait", "ready", "enqueue"}

\* C1: Reload's drain calls Stop on an old worker only when no Exec holds it
\* (taken from the channel, not yet re-enqueued or scheduled for replacement).
C1_DrainNeverStopsHeldWorker ==
    [][\A t \in Tasks : DrainStop(t) => ~Held(Head(t.todo))]_vars

\* C2: before Stop, every worker in the availability channel is in the live
\* set p.workers, is Idle and has never been stopped.
C2_ChannelHoldsLiveIdleWorkers ==
    \A i \in 1..Len(available) :
        /\ InSeq(available[i], workers)
        /\ wstate[available[i]] = StateIdle
        /\ proc[available[i]] = "running"

\* C3: a worker is in the availability channel at most once, and a Busy
\* worker is never in the channel.
C3_AtMostOnceAndNeverBusy ==
    \A w \in WorkerIds :
        /\ Count(w, available) <= 1
        /\ wstate[w] = StateBusy => ~InSeq(w, available)

\* C3 witness: one worker is Busy in a turn while another, which has served
\* a request and was sent back, sits in the channel.
C3_Witness ==
    \E w, v \in WorkerIds :
        /\ wstate[w] = StateBusy
        /\ InSeq(v, available)
        /\ jobs[v] > 0

\* nothing in progress: no Exec, no spawn, stop, replacement, auto-scale step
\* or reload drain
Quiescent ==
    /\ Started
    /\ execs = EmptyBag
    /\ tasks = EmptyBag
    /\ reloader.pc = "none"
    /\ wd.pc = "wait"
    /\ \A w \in WorkerIds : proc[w] # "stopping"

\* C4: in every quiescent state the number of live workers is between
\* MinWorkers and MaxWorkers.
C4_QuiescentWithinBounds ==
    Quiescent =>
        /\ cfg.MinWorkers <= Len(workers)
        /\ Len(workers) <= cfg.MaxWorkers

\* the worker w is scheduled for replacement: a replaceWorker(w) goroutine
\* runs, or has already removed w from p.workers
Replaced(w) ==
    \/ \E t \in Tasks : t.kind = "replace" /\ t.old = w
    \/ ~InSeq(w, workers)

\* C5: a worker whose post-response frame was not WORKER_READY (or whose read
\* failed) is scheduled for replacement and is never in the channel again.
C5_NotReadyNeverReenqueued ==
    \A w \in hist.notReady : Replaced(w) /\ ~InSeq(w, available)

\* C5 witness: the post-response read on a worker did not yield WORKER_READY,
\* the worker has been removed and its replacement is in the channel.
C5_Witness ==
    \E w \in hist.notReady : ~InSeq(w, workers) /\ available # <<>>

\* C6: a worker whose turn ran into the request timeout is scheduled for
\* replacement and is never in the channel again, and the Exec that timed out
\* returned RequestTimeout in the step in which the timer fired.
C6_TimedOutNeverReenqueued ==
    /\ \A w \in hist.timedOut : Replaced(w) /\ ~InSeq(w, available)
    /\ \A e \in Execs : e.w \in hist.timedOut => e.pc = "returned"

\* C6 witness: the late turn of a timed-out Exec has ended (the worker's job
\* counter moved, no call refers to the worker any more) after the caller got
\* RequestTimeout.
C6_Witness ==
    \E w \in hist.timedOut :
        /\ jobs[w] > 0
        /\ \A e \in Execs : e.w # w

\* C7: every Exec eventually returns; in particular a call that waits for the
\* post-response WORKER_READY leaves that wait, whatever the worker does.
C7_EveryExecReturns ==
    (\E e \in Execs : e.pc = "ready") ~> ~(\E e \in Execs : e.pc = "ready")

\* C8: once the lifecycle context is cancelled, no Exec receives a worker (or
\* the nil worker) from the channel.
C8_NoAcquireAfterCancel ==
    [][cancelled => ~(\E e \in Execs : ExecAcquire(e))]_vars

\* C9: Stop is idempotent: a second Stop does not crash on the close of the
\* channel the first one closed.
C9_StopIdempotent == panicked # "close of closed channel"

\* C10: once a Stop has returned, every worker in p.workers has been stopped:
\* none is running, none spawned afterwards.
C10_NoWorkerRunsAfterStop ==
    hist.stopsReturned > 0 => \A w \in SeqToSet(workers) : proc[w] # "running"

\* the dispatches that use the pipes of the worker w: their turn goroutine has
\* not ended, or Pool.Exec is in its post-response read
OnPipes(w) ==
    { e \in Execs : e.w = w /\ (e.tpc \in {"lock", "read", "wfail"} \/ e.pc = "ready") }

\* C11: at no time does one worker have two turns in flight: a second
\* dispatch on a worker starts only after the first one's reply was read.
C11_OneTurnPerWorker ==
    \A w \in WorkerIds :
        BagCardinality([e \in OnPipes(w) |-> CopiesIn(e, execs)]) <= 1

\* C11 witness: a worker that has already served one dispatch is in the turn
\* of a second one.
C11_Witness ==
    \E e \in Execs : e.w # NilWorker /\ e.tpc = "read" /\ jobs[e.w] > 0

----------------------------------------------------------------------------
\* Pool.Reload when a spawn fails

\* Pool.spawnWorker whose NewWorker returns an error: the id is used up, no
\* handle comes into being (its slot holds a process that never ran on)
spawnFails ==
    /\ nextID' = nextID + 1
    /\ wstate' = Append(wstate, StateStopped)
    /\ jobs' = Append(jobs, 0)
    /\ mu' = Append(mu, FALSE)
    /\ proc' = Append(proc, "exited")

\* Reload returns "reload failed": no drain goroutine is started
ReloadFailed(r) ==
    /\ reloader' = NoReload
    /\ hist' = [hist EXCEPT !.rolledBack = @ \cup SeqToSet(r.spawned)]

\* w, err := p.spawnWorker() with err != nil: go on to stop newWorkers
ReloadSpawnFail ==
    /\ Alive
    /\ reloader.pc = "spawn"
    /\ spawnFails
    /\ IF reloader.spawned = <<>>
       THEN ReloadFailed(reloader)
       ELSE /\ reloader' = [reloader EXCEPT !.pc = "rollback", !.i = 1]
            /\ UNCHANGED hist
    /\ UNCHANGED <<cfg, handler, config, watcher, manager, wire, workers, available, closed, cancelled,
                   totalRequests, busyWorkers, execs, tasks, wd, starter,
                   panicked, ops>>

\* for _, nw := range newWorkers { nw.Stop() }: the call of Stop
ReloadRollbackStop ==
    /\ Alive
    /\ reloader.pc = "rollback"
    /\ WorkerStop(reloader.spawned[reloader.i])
    /\ reloader' = [reloader EXCEPT !.pc = "rollbackWait"]
    /\ UNCHANGED <<cfg, handler, config, watcher, manager, wire, workers, available, closed, cancelled, nextID,
                   totalRequests, busyWorkers, jobs, mu, execs, tasks, wd,
                   starter, panicked, ops, hist>>

\* nw.Stop() returned: the next new worker, or return fmt.Errorf("reload
\* failed: %w", err)
ReloadRollbackNext ==
    /\ Alive
    /\ reloader.pc = "rollbackWait"
    /\ StopReturned(reloader.spawned[reloader.i])
    /\ IF reloader.i < Len(reloader.spawned)
       THEN /\ reloader' = [reloader EXCEPT !.pc = "rollback", !.i = @ + 1]
            /\ UNCHANGED hist
       ELSE ReloadFailed(reloader)
    /\ UNCHANGED <<cfg, handler, config, watcher, manager, wire, workers, available, closed, cancelled, nextID,
                   totalRequests, busyWorkers, wstate, jobs, mu, proc, execs,
                   tasks, wd, starter, panicked, ops>>

\* the configurations explored when spawns may fail: also one with two
\* initial workers
ConfigsFail ==
    Configs \cup
    { [MinWorkers |-> 2, MaxWorkers |-> 2, MaxJobs |-> 0, RequestTimeout |-> 1] }

InitFail == cfg \in ConfigsFail /\ InitPool

NextFail ==
    \/ NextRun
    \/ ReloadSpawnFail
    \/ ReloadRollbackStop
    \/ ReloadRollbackNext

\* the running pool, where a spawn of Reload may fail
SpecFail == InitFail /\ [][NextFail]_vars

\* C12: after a Reload that failed on a spawn has returned, none of the
\* workers it had spawned is in p.workers or in the availability channel.
C12_FailedReloadRolledBack ==
    \A w \in hist.rolledBack : ~InSeq(w, workers) /\ ~InSeq(w, available)

\* the running pool under fair scheduling, where every turn in flight ends
FairTurns ==
    /\ SpecRun
    /\ WF_vars(PoolStep)
    /\ WF_vars(\E e \in Execs, o \in Outcomes : TurnFinish(e, o))

\* a drain goroutine of Reload runs
Draining == \E t \in Tasks : t.kind = "drain"

PoolExhaustedStep ==
    \/ execs' = execs (+) SetToBag({NewExec})
    \/ /\ BagIn(NewExec, execs)
       /\ execs' = execs (-) SetToBag({NewExec})
       /\ hist'.lastReturn = "PoolExhausted"

\* C14: an Exec that fails with PoolExhausted changes no worker state: the
\* live set, the channel, every worker's state and job count and busy_workers
\* are as before.
C14_PoolExhaustedChangesNothing ==
    [][PoolExhaustedStep =>
        UNCHANGED <<workers, available, wstate, jobs, busyWorkers>>]_vars

\* C14 witness: an Exec has failed with PoolExhausted while the only worker
\* is Busy in another call's turn.
C14_Witness ==
    /\ hist.lastReturn = "PoolExhausted"
    /\ workers # <<>>
    /\ \A i \in 1..Len(workers) : wstate[workers[i]] = StateBusy

\* C15: total_requests is the number of Exec invocations that received a
\* worker; once no call is in progress, the calls that failed with
\* PoolExhausted or Shutdown before that are not in it.
C15_TotalRequestsCountsAcquisitions ==
    execs = EmptyBag => totalRequests = hist.acquired

\* C16: a worker's ERROR frame is never returned to the caller as a
\* successful response (Exec fails with WorkerReported instead).
C16_ErrorFrameNotReturnedAsResponse == hist.lastReturn # TypeError

\* C17: a reply frame whose type is neither RESPONSE nor ERROR (here
\* WORKER_READY) is never returned to the caller as a response.
C17_UnexpectedFrameNotReturned == hist.lastReturn # TypeWorkerReady

\* the turns in flight: w.Exec has been started and has not ended
InTurn == { e \in Execs : e.w # NilWorker /\ e.tpc \in {"lock", "read", "wfail"} }

\* C18: with max_jobs > 0 a worker needs recycling exactly when its job count
\* is at least max_jobs: no turn runs on a worker with job_count >= max_jobs,
\* and a worker that reached max_jobs is scheduled for replacement and never
\* in the channel again.  With max_jobs = 0 no job count needs recycling.
C18_RecycleByJobCount ==
    /\ \A n \in 0..MaxOps :
          needsRecycle(n) <=> (cfg.MaxJobs > 0 /\ n >= cfg.MaxJobs)
    /\ cfg.MaxJobs > 0 =>
          /\ \A e \in InTurn : jobs[e.w] < cfg.MaxJobs
          /\ \A w \in WorkerIds :
                jobs[w] >= cfg.MaxJobs => Replaced(w) /\ ~InSeq(w, available)

\* C18 witness: a worker that reached max_jobs has been removed, and a later
\* Exec is in its turn on a worker with another id.
C18_Witness ==
    /\ cfg.MaxJobs > 0
    /\ \E w \in WorkerIds, e \in InTurn :
          /\ jobs[w] >= cfg.MaxJobs
          /\ ~InSeq(w, workers)
          /\ e.w # w
          /\ e.tpc = "read"

----------------------------------------------------------------------------
\* The watchdog's ticker never stops.  Beyond the MaxOps operations the
\* ticks go on where they take a worker out of the pool: checkHealth finds no
\* dead worker and autoScale scales down.  (A tick that finds nothing to do
\* changes nothing.)

\* case <-ticker.C, after the MaxOps operations: p.checkHealth() finds
\* nothing, p.autoScale() takes an idle worker from the channel and retires it
WatchdogTickLate ==
    /\ Alive
    /\ wd.pc = "wait"
    /\ ops = MaxOps
    /\ checkHealth(workers, tasks) = tasks
    /\ ScaleDown(Len(workers), busyWorkers)
    /\ available # <<>>
    /\ available' = Receive(available)
    /\ tasks' = Go(Task("retire", "stop", Head(available), NilWorker, <<>>))
    /\ UNCHANGED <<cfg, handler, config, watcher, manager, wire, workers, closed, cancelled, nextID, totalRequests,
                   busyWorkers, wstate, jobs, mu, proc, execs, wd, starter,
                   reloader, panicked, ops, hist>>

NextWatch == NextRun \/ WatchdogTickLate

\* a step of an Exec call that waits for no worker process
ExecRuns ==
    \/ \E e \in Execs : TurnFinish(e, "err") /\ e.tpc = "wfail"
    \/ \E e \in Execs : TurnFinish(e, "err") /\ proc[e.w] = "exited"
    \/ \E e \in Execs : ExecReadReady(e, "err") /\ proc[e.w] = "exited"
    \/ \E e \in Execs : ExecAcquire(e) \/ ExecAllocTimeout(e)
    \/ \E e \in Execs : TurnBegin(e)
    \/ \E e \in Execs : ExecRequestTimeout(e)
    \/ \E e \in Execs : ExecEnqueue(e)

\* a step of the goroutine Reload starts to drain the old workers
DrainStep == \E t \in Tasks : DrainStop(t) \/ DrainRemove(t)

\* a step of a replaceWorker goroutine
ReplaceStep ==
    \E t \in Tasks : ReplaceStop(t) \/ ReplaceRemove(t) \/ ReplaceSpawn(t)
                         \/ ReplaceEnqueue(t)

\* a step of the goroutine autoScale starts to retire a worker
RetireStep == \E t \in Tasks : RetireStop(t) \/ RetireRemove(t)

\* a step of the watchdog goroutine after its tick
WatchdogStep == AutoScaleUp \/ AutoScaleEnqueue \/ AutoScaleDown \/ AutoScaleNone

\* the running pool where every goroutine is scheduled fairly, every turn in
\* flight ends, every stopped process exits and the watchdog keeps ticking
FairWatch ==
    /\ Init /\ [][NextWatch]_vars
    /\ WF_vars(StartWorker)
    /\ WF_vars(ExecRuns)
    /\ WF_vars(ReloadSpawn \/ ReloadEnqueue)
    /\ WF_vars(DrainStep)
    /\ WF_vars(ReplaceStep)
    /\ WF_vars(RetireStep)
    /\ WF_vars(WatchdogStep)
    /\ WF_vars(\E w \in WorkerIds : ProcExit(w))
    /\ WF_vars(\E e \in Execs, o \in Outcomes : TurnFinish(e, o))
    /\ WF_vars(WatchdogTick)
    /\ WF_vars(WatchdogTickLate)

\* a replaceWorker goroutine runs
Replacing == \E t \in Tasks : t.kind = "replace"

\* C19: a worker scheduled for replacement is eventually removed and a fresh
\* worker is eventually enqueued: every replaceWorker goroutine ends.
C19_ReplacementCompletes == Replacing ~> ~Replacing

----------------------------------------------------------------------------
\* The frame codec (protocol.WriteFrame, protocol.ReadFrame)

\* var Magic = [2]byte{0x4D, 0x42}
Magic == <<77, 66>>

\* const Version uint8 = 0x01
Version == 1

\* const FrameHeaderSize = 14
FrameHeaderSize == 14

\* A length (Go int, 64 bits) is held as hi * 2^16 + lo with lo < 2^16, so
\* that lengths around 2^32 can be told apart.
Word == 65536

Size(hi, lo) == [hi |-> hi, lo |-> lo]

Zero == Size(0, 0)

\* a < b
Less(a, b) == a.hi < b.hi \/ (a.hi = b.hi /\ a.lo < b.lo)

\* a + b
Plus(a, b) ==
    IF a.lo + b.lo < Word THEN Size(a.hi + b.hi, a.lo + b.lo)
    ELSE Size(a.hi + b.hi + 1, a.lo + b.lo - Word)

\* a - b, for b <= a
Minus(a, b) ==
    IF a.lo >= b.lo THEN Size(a.hi - b.hi, a.lo - b.lo)
    ELSE Size(a.hi - b.hi - 1, a.lo + Word - b.lo)

\* Bytes are held as runs: size bytes, each of value fill.  A []byte and the
\* contents of a reader are sequences of runs, no run empty and no two
\* neighbours of one fill.
Run(n, b) == [size |-> n, fill |-> b]

\* a followed by b
Concat(a, b) ==
    IF a = <<>> THEN b
    ELSE IF b = <<>> THEN a
    ELSE IF a[Len(a)].fill = b[1].fill
    THEN SubSeq(a, 1, Len(a) - 1)
         \o <<Run(Plus(a[Len(a)].size, b[1].size), b[1].fill)>>
         \o Tail(b)
    ELSE a \o b

\* the []byte of the given byte values
RECURSIVE Bytes(_)
Bytes(bs) ==
    IF bs = <<>> THEN <<>>
    ELSE Concat(<<Run(Size(0, 1), Head(bs))>>, Bytes(Tail(bs)))

\* the byte values of a short []byte
RECURSIVE Values(_)
Values(rs) ==
    IF rs = <<>> THEN <<>>
    ELSE IF rs[1].size = Size(0, 1) THEN <<rs[1].fill>> \o Values(Tail(rs))
    ELSE <<rs[1].fill>>
         \o Values(<<Run(Minus(rs[1].size, Size(0, 1)), rs[1].fill)>> \o Tail(rs))

\* len(b)
RECURSIVE LenOf(_)
LenOf(rs) == IF rs = <<>> THEN Zero ELSE Plus(rs[1].size, LenOf(Tail(rs)))

\* A []byte field of a Frame: nil, or the bytes
NilBlob == [nil |-> TRUE, bytes |-> <<>>]

Blob(rs) == [nil |-> FALSE, bytes |-> rs]

\* io.ReadFull(r, buf) with len(buf) = n: the n bytes and what is left in the
\* reader, or the failure when the reader ends first
RECURSIVE ReadFull(_, _)
ReadFull(r, n) ==
    IF n = Zero THEN [ok |-> TRUE, data |-> <<>>, rest |-> r]
    ELSE IF r = <<>> THEN [ok |-> FALSE, data |-> <<>>, rest |-> <<>>]
    ELSE IF Less(n, r[1].size)
    THEN [ok |-> TRUE, data |-> <<Run(n, r[1].fill)>>,
          rest |-> <<Run(Minus(r[1].size, n), r[1].fill)>> \o Tail(r)]
    ELSE LET more == ReadFull(Tail(r), Minus(n, r[1].size))
         IN  [ok |-> more.ok, data |-> Concat(<<r[1]>>, more.data),
              rest |-> more.rest]

\* header[7..9]: byte(hdrSize >> 16), byte(hdrSize >> 8), byte(hdrSize), of
\* which the first was left zero
HdrSizeBytes16(n) == <<0, n.lo \div 256, n.lo % 256>>

\* header[7..9]: byte(hdrSize >> 16), byte(hdrSize >> 8), byte(hdrSize)
HdrSizeBytes(n) == <<n.hi % 256, n.lo \div 256, n.lo % 256>>

\* binary.BigEndian.PutUint32(header[10:14], uint32(len(f.Payload)))
PayloadSizeBytes(n) ==
    <<(n.hi % Word) \div 256, n.hi % 256, n.lo \div 256, n.lo % 256>>

\* protocol.WriteFrame(w, f): what w holds afterwards
WriteFrame(w, f) ==
    LET header == Magic \o <<Version, f.Type, f.Flags,
                              f.StreamID \div 256, f.StreamID % 256>>
                     \o HdrSizeBytes(LenOf(f.Headers.bytes))
                     \o PayloadSizeBytes(LenOf(f.Payload.bytes))
    IN  Concat(Concat(Concat(w, Bytes(header)), f.Headers.bytes),
               f.Payload.bytes)

\* ReadFrame's checks of the header, with the version looked at first
HeaderErrorVersionFirst(header) ==
    IF header[3] # Version THEN "unsupported protocol version"
    ELSE IF header[1] # Magic[1] \/ header[2] # Magic[2]
    THEN "invalid magic bytes"
    ELSE "nil"

\* ReadFrame's checks of the header it has read: the magic bytes, then the
\* version
HeaderError(header) ==
    IF header[1] # Magic[1] \/ header[2] # Magic[2] THEN "invalid magic bytes"
    ELSE IF header[3] # Version THEN "unsupported protocol version"
    ELSE "nil"

\* protocol.ReadFrame(r): the error or the frame, and what is left in r
ReadFrame(r) ==
    LET h == ReadFull(r, Size(0, FrameHeaderSize))
        header == Values(h.data)
        hdrSize == Size(header[8], header[9] * 256 + header[10])
        payloadSize == Size(header[11] * 256 + header[12],
                            header[13] * 256 + header[14])
        hs == ReadFull(h.rest, hdrSize)
        ps == ReadFull(hs.rest, payloadSize)
        failed(e, rest) == [err |-> e, frame |-> <<>>, rest |-> rest]
    IN  IF ~h.ok THEN failed("reading frame header", h.rest)
        ELSE IF HeaderError(header) # "nil"
        THEN failed(HeaderError(header), h.rest)
        ELSE IF ~hs.ok THEN failed("reading frame headers", hs.rest)
        ELSE IF ~ps.ok THEN failed("reading frame payload", ps.rest)
        ELSE [err |-> "nil",
              frame |-> [Type |-> header[4], Flags |-> header[5],
                         StreamID |-> header[6] * 256 + header[7],
                         Headers |-> IF hdrSize = Zero THEN NilBlob
                                     ELSE Blob(hs.data),
                         Payload |-> IF payloadSize = Zero THEN NilBlob
                                     ELSE Blob(ps.data)],
              rest |-> ps.rest]

\* how far beyond the limits of the length fields the lengths tried go
MaxOver == 1

\* 2^24 - 1, the largest value of the 3-byte header length
HeaderLimit == Size(255, 65535)

\* 2^32 - 1, the largest value of the 4-byte payload length
PayloadLimit == Size(65535, 65535)

HeaderSizes ==
    {Size(0, 1), Size(0, 256), Size(1, 0), HeaderLimit}
        \cup {Plus(HeaderLimit, Size(0, k)) : k \in 1..MaxOver}

PayloadSizes ==
    {Size(0, 1), Size(1, 0), Size(256, 0), PayloadLimit}
        \cup {Plus(PayloadLimit, Size(0, k)) : k \in 1..MaxOver}

Fills == {0, 129}

Blobs(sizes) ==
    {NilBlob, Blob(<<>>)} \cup {Blob(<<Run(n, b)>>) : n \in sizes, b \in Fills}

\* the frames tried: Type and Flags are uint8, StreamID is uint16
Frames ==
    [Type : {1, 2, 3, 255}, Flags : {0, 5}, StreamID : {0, 258, 65535},
     Headers : Blobs(HeaderSizes), Payload : Blobs(PayloadSizes)]

\* what is written to the same writer after the frame
Trails ==
    {<<Run(Size(0, 3), 0)>>, Bytes(Magic), <<Run(Size(0, 2), 129)>>}

\* no typed decoder has been applied
Undecoded == [by |-> "none", out |-> <<>>]

Unread == [err |-> "unread", frame |-> <<>>, rest |-> <<>>]

\* a frame to encode and an empty buffer (a bytes.Buffer, as in the tests)
InitWire ==
    /\ cfg \in Configs
    /\ handler = NoHandler
    /\ manager = NewManager
    /\ watcher = NoWatcher
    /\ config = NoConfig
    /\ PoolNew
    /\ wire \in [pc : {"write"}, f : Frames, buf : {<<>>}, after : {<<>>},
                 got : {Unread}, dec : {Undecoded}]

\* WriteFrame(&buf, f)
WireWrite ==
    /\ wire.pc = "write"
    /\ wire' = [wire EXCEPT !.pc = "written", !.buf = WriteFrame(@, wire.f)]
    /\ UNCHANGED <<cfg, handler, config, watcher, manager, workers, available, closed, cancelled, nextID,
                   totalRequests, busyWorkers, wstate, jobs, mu, proc, execs,
                   tasks, wd, starter, reloader, panicked, ops, hist>>

\* more bytes are written to the buffer after the frame
WireMore(t) ==
    /\ wire.pc = "written"
    /\ wire' = [wire EXCEPT !.pc = "more", !.buf = Concat(@, t), !.after = t]
    /\ UNCHANGED <<cfg, handler, config, watcher, manager, workers, available, closed, cancelled, nextID,
                   totalRequests, busyWorkers, wstate, jobs, mu, proc, execs,
                   tasks, wd, starter, reloader, panicked, ops, hist>>

\* ReadFrame(&buf)
WireRead ==
    /\ wire.pc \in {"written", "more"}
    /\ wire' = [wire EXCEPT !.pc = "read", !.got = ReadFrame(wire.buf)]
    /\ UNCHANGED <<cfg, handler, config, watcher, manager, workers, available, closed, cancelled, nextID,
                   totalRequests, busyWorkers, wstate, jobs, mu, proc, execs,
                   tasks, wd, starter, reloader, panicked, ops, hist>>

NextWire == WireWrite \/ (\E t \in Trails : WireMore(t)) \/ WireRead

\* the codec at work on one frame
SpecWire == InitWire /\ [][NextWire]_vars

\* the frame is one the length fields can describe
WithinLimits(f) ==
    /\ ~Less(HeaderLimit, LenOf(f.Headers.bytes))
    /\ ~Less(PayloadLimit, LenOf(f.Payload.bytes))

\* C20: for a frame whose headers are at most 2^24-1 bytes and whose payload
\* is at most 2^32-1 bytes, ReadFrame on what WriteFrame wrote returns the
\* same type, flags, stream id, headers bytes and payload bytes (nil and empty
\* alike) and leaves in the reader exactly what was written after the frame.
C20_FrameRoundTrip ==
    wire.pc = "read" /\ WithinLimits(wire.f) =>
        /\ wire.got.err = "nil"
        /\ wire.got.frame.Type = wire.f.Type
        /\ wire.got.frame.Flags = wire.f.Flags
        /\ wire.got.frame.StreamID = wire.f.StreamID
        /\ wire.got.frame.Headers.bytes = wire.f.Headers.bytes
        /\ wire.got.frame.Payload.bytes = wire.f.Payload.bytes
        /\ wire.got.rest = wire.after

\* C20 witness: a frame with headers of 2^24-1 bytes and a payload of 2^32-1
\* bytes, followed by more bytes, has been read back.
C20_Witness ==
    /\ wire.pc = "read"
    /\ LenOf(wire.f.Headers.bytes) = HeaderLimit
    /\ LenOf(wire.f.Payload.bytes) = PayloadLimit
    /\ wire.after # <<>>
    /\ wire.got.err = "nil"
    /\ wire.got.frame.Payload = wire.f.Payload

----------------------------------------------------------------------------
\* The codec on input that no WriteFrame wrote: the first three bytes of the
\* reader differ from what was written.

\* the first n bytes of a reader that holds at least n
Prefix(r, n) == Values(ReadFull(r, Size(0, n)).data)

\* the first three bytes tried: each magic byte as written or zero, the
\* version as written, zero or the next version
Prefixes ==
    {<<a, b, c>> : a \in {Magic[1], 0}, b \in {Magic[2], 0},
                   c \in {Version, 0, Version + 1}}

\* the reader's first three bytes are not those WriteFrame wrote
WireCorrupt(p) ==
    /\ wire.pc = "written"
    /\ p # Prefix(wire.buf, 3)
    /\ wire' = [wire EXCEPT !.pc = "more",
                            !.buf = Concat(Bytes(p), ReadFull(@, Size(0, 3)).rest)]
    /\ UNCHANGED <<cfg, handler, config, watcher, manager, workers, available, closed, cancelled, nextID,
                   totalRequests, busyWorkers, wstate, jobs, mu, proc, execs,
                   tasks, wd, starter, reloader, panicked, ops, hist>>

NextWireIn == NextWire \/ \E p \in Prefixes : WireCorrupt(p)

\* the codec at work on one frame and on corrupted input
SpecWireIn == InitWire /\ [][NextWireIn]_vars

\* C21: what WriteFrame writes starts with 0x4D 0x42 0x01; ReadFrame on input
\* whose bytes 0-1 are not the magic returns the invalid-magic error and no
\* frame, and on input with the magic and another version the
\* unsupported-version error and no frame.
C21_MagicAndVersion ==
    /\ wire.pc = "written" => Prefix(wire.buf, 3) = Magic \o <<Version>>
    /\ wire.pc = "read" =>
        LET p == Prefix(wire.buf, 3)
        IN  /\ <<p[1], p[2]>> # Magic =>
                wire.got.err = "invalid magic bytes" /\ wire.got.frame = <<>>
            /\ <<p[1], p[2]>> = Magic /\ p[3] # Version =>
                wire.got.err = "unsupported protocol version"
                    /\ wire.got.frame = <<>>

\* C21 witness: input with a wrong magic byte and a wrong version was read
\* and refused for its magic.
C21_Witness ==
    /\ wire.pc = "read"
    /\ Prefix(wire.buf, 3)[1] # Magic[1]
    /\ Prefix(wire.buf, 3)[3] # Version
    /\ wire.got.err = "invalid magic bytes"

\* C22: WriteFrame on a frame whose headers are longer than 2^24-1 bytes or
\* whose payload is longer than 2^32-1 bytes writes nothing.
C22_OverlongFrameRejected ==
    wire.pc = "written" /\ ~WithinLimits(wire.f) => wire.buf = <<>>

----------------------------------------------------------------------------
\* The typed decoders (DecodeRequest, DecodeResponse, DecodeStreamData)

\* the message types' bytes on the wire
TypeCode ==
    [REQUEST |-> 1, RESPONSE |-> 2, STREAM_DATA |-> 3, STREAM_CLOSE |-> 4,
     WORKER_READY |-> 5, WORKER_STOP |-> 6, PING |-> 7, ERROR |-> 8]

\* the types that have a decoder
Decoders == {"REQUEST", "RESPONSE", "STREAM_DATA"}

\* a decoder that takes every frame for one of its type
TypeAny(f, t) == TRUE

\* f.Type is the type the decoder of t expects
TypeIs(f, t) == f.Type = TypeCode[t]

\* the nil *RequestHeader, *ResponseHeader, *StreamHeader
NilHeader == [nil |-> TRUE, of |-> <<>>]

\* DecodeRequest, DecodeResponse, DecodeStreamData, as the decoder of type t:
\* the header, the payload and the error.  unmarshalErr is what
\* UnmarshalMsgpack(f.Headers, &header) returned.
Decode(t, f, unmarshalErr) ==
    IF ~TypeIs(f, t)
    THEN [header |-> NilHeader, payload |-> NilBlob,
          err |-> [msg |-> "expected frame of type", expected |-> t,
                   got |-> f.Type]]
    ELSE IF unmarshalErr
    THEN [header |-> NilHeader, payload |-> NilBlob,
          err |-> [msg |-> "decoding headers", expected |-> t, got |-> f.Type]]
    ELSE [header |-> [nil |-> FALSE, of |-> f.Headers.bytes],
          payload |-> f.Payload,
          err |-> [msg |-> "nil", expected |-> t, got |-> f.Type]]

\* a typed decoder applied to the frame ReadFrame returned
WireDecode(t, unmarshalErr) ==
    /\ wire.pc = "read"
    /\ wire.got.err = "nil"
    /\ wire' = [wire EXCEPT !.pc = "decoded",
                            !.dec = [by |-> t,
                                     out |-> Decode(t, wire.got.frame, unmarshalErr)]]
    /\ UNCHANGED <<cfg, handler, config, watcher, manager, workers, available, closed, cancelled, nextID,
                   totalRequests, busyWorkers, wstate, jobs, mu, proc, execs,
                   tasks, wd, starter, reloader, panicked, ops, hist>>

NextWireDec ==
    NextWire \/ \E t \in Decoders, unmarshalErr \in BOOLEAN : WireDecode(t, unmarshalErr)

\* the codec and the typed decoders at work on one frame
SpecWireDec == InitWire /\ [][NextWireDec]_vars

\* C23: a typed decoder applied to a frame of another type returns the
\* unexpected-frame-type error, which reports the frame's type, and neither
\* headers nor payload.
C23_WrongTypeRefused ==
    wire.pc = "decoded" /\ wire.got.frame.Type # TypeCode[wire.dec.by] =>
        /\ wire.dec.out.err.msg = "expected frame of type"
        /\ wire.dec.out.err.got = wire.got.frame.Type
        /\ wire.dec.out.header = NilHeader
        /\ wire.dec.out.payload = NilBlob

\* C23 witness: the RESPONSE decoder was applied to a STREAM_DATA frame with
\* headers and payload.
C23_Witness ==
    /\ wire.pc = "decoded"
    /\ wire.dec.by = "RESPONSE"
    /\ wire.got.frame.Type = TypeCode["STREAM_DATA"]
    /\ wire.got.frame.Headers # NilBlob
    /\ wire.got.frame.Payload # NilBlob
    /\ wire.dec.out.err.msg # "nil"

----------------------------------------------------------------------------
\* websocket.Manager: every method takes m.mu for what it does to the maps

\* delete(client.Rooms, room), left out
KeepRooms(rs, room) == rs

\* delete(client.Rooms, room)
WithoutRoom(rs, room) == rs \ {room}

\* delete(members, id) that leaves the emptied room in m.rooms
DropMemberOnly(rooms, room, id) ==
    IF rooms[room].exists
    THEN [rooms EXCEPT ![room].members = @ \ {id}]
    ELSE rooms

\* if members, ok := m.rooms[room]; ok { delete(members, id);
\* if len(members) == 0 { delete(m.rooms, room) } }
DropMember(rooms, room, id) ==
    IF ~rooms[room].exists THEN rooms
    ELSE IF rooms[room].members \ {id} = {} THEN [rooms EXCEPT ![room] = NoRoom]
    ELSE [rooms EXCEPT ![room].members = @ \ {id}]

\* for room := range client.Rooms { ... }
RECURSIVE PurgeRooms(_, _, _)
PurgeRooms(rooms, rs, id) ==
    IF rs = {} THEN rooms
    ELSE LET room == CHOOSE r \in rs : TRUE
         IN  PurgeRooms(DropMember(rooms, room, id), rs \ {room}, id)

\* Manager.AddConnection
AddConnection(id) ==
    /\ ~manager.clients[id].exists
    /\ manager' = [manager EXCEPT !.clients[id] = [exists |-> TRUE, Rooms |-> {}]]
    /\ UNCHANGED <<cfg, handler, config, watcher, wire, workers, available, closed, cancelled, nextID,
                   totalRequests, busyWorkers, wstate, jobs, mu, proc, execs,
                   tasks, wd, starter, reloader, panicked, ops, hist>>

\* Manager.RemoveConnection
RemoveConnection(id) ==
    /\ manager' = IF ~manager.clients[id].exists THEN manager
             ELSE [manager EXCEPT
                     !.rooms = PurgeRooms(@, manager.clients[id].Rooms, id),
                     !.clients[id] = NoClient]
    /\ UNCHANGED <<cfg, handler, config, watcher, wire, workers, available, closed, cancelled, nextID,
                   totalRequests, busyWorkers, wstate, jobs, mu, proc, execs,
                   tasks, wd, starter, reloader, panicked, ops, hist>>

\* Manager.JoinRoom
JoinRoom(clientID, room) ==
    /\ manager' = IF ~manager.clients[clientID].exists THEN manager
             ELSE [manager EXCEPT
                     !.rooms[room] = [exists |-> TRUE,
                                      members |-> @.members \cup {clientID}],
                     !.clients[clientID].Rooms = @ \cup {room}]
    /\ UNCHANGED <<cfg, handler, config, watcher, wire, workers, available, closed, cancelled, nextID,
                   totalRequests, busyWorkers, wstate, jobs, mu, proc, execs,
                   tasks, wd, starter, reloader, panicked, ops, hist>>

\* Manager.LeaveRoom
LeaveRoom(clientID, room) ==
    /\ manager' = IF ~manager.clients[clientID].exists THEN manager
             ELSE [manager EXCEPT
                     !.rooms = DropMember(@, room, clientID),
                     !.clients[clientID].Rooms = WithoutRoom(@, room)]
    /\ UNCHANGED <<cfg, handler, config, watcher, wire, workers, available, closed, cancelled, nextID,
                   totalRequests, busyWorkers, wstate, jobs, mu, proc, execs,
                   tasks, wd, starter, reloader, panicked, ops, hist>>

\* BroadcastToRoom's clients slice that leaves nobody out
Everyone(members, excludeID) == members

\* BroadcastToRoom's clients slice: the members whose ID is not excludeID
Others(members, excludeID) == members \ {excludeID}

\* Manager.BroadcastToRoom up to m.mu.RUnlock(): return if the room does not
\* exist, else copy the members to send to
BroadcastToRoom(room, excludeID) ==
    /\ manager.bc.pc \in {"none", "done"}
    /\ manager' = [manager EXCEPT !.bc =
                [pc |-> IF manager.rooms[room].exists THEN "send" ELSE "done",
                 room |-> room, x |-> excludeID,
                 at |-> manager.rooms[room].members,
                 todo |-> Others(manager.rooms[room].members, excludeID),
                 sent |-> <<>>]]
    /\ UNCHANGED <<cfg, handler, config, watcher, wire, workers, available, closed, cancelled, nextID,
                   totalRequests, busyWorkers, wstate, jobs, mu, proc, execs,
                   tasks, wd, starter, reloader, panicked, ops, hist>>

\* for _, c := range clients { if err := c.Send(data); err != nil { log } }:
\* one round of the loop, the send failing or not
BroadcastSend(c, failed) ==
    /\ manager.bc.pc = "send"
    /\ c \in manager.bc.todo
    /\ manager' = [manager EXCEPT !.bc.todo = @ \ {c},
                        !.bc.sent = Append(@, [to |-> c, err |-> failed]),
                        !.bc.pc = IF manager.bc.todo = {c} THEN "done" ELSE "send"]
    /\ UNCHANGED <<cfg, handler, config, watcher, wire, workers, available, closed, cancelled, nextID,
                   totalRequests, busyWorkers, wstate, jobs, mu, proc, execs,
                   tasks, wd, starter, reloader, panicked, ops, hist>>

NextWs ==
    \/ \E id \in ConnIds : AddConnection(id)
    \/ \E id \in ConnIds : RemoveConnection(id)
    \/ \E id \in ConnIds, room \in RoomNames : JoinRoom(id, room)
    \/ \E id \in ConnIds, room \in RoomNames : LeaveRoom(id, room)
    \/ \E room \in RoomNames, x \in ConnIds \cup {NoConn} : BroadcastToRoom(room, x)
    \/ \E c \in ConnIds, failed \in BOOLEAN : BroadcastSend(c, failed)

\* the Manager under any interleaving of its methods
SpecWs == Init /\ [][NextWs]_vars

\* C24: for every registered connection c and room r, c is a member of r if
\* and only if r is in c's rooms; and every member of a room is registered.
C24_RoomsAndMembersAgree ==
    \A r \in RoomNames :
        /\ \A c \in ConnIds :
              manager.clients[c].exists =>
                  (c \in manager.rooms[r].members <=> r \in manager.clients[c].Rooms)
        /\ \A c \in manager.rooms[r].members : manager.clients[c].exists

\* C24 witness: two rooms with different members, and a registered
\* connection that is in neither.
C24_Witness ==
    /\ manager.rooms["lobby"].members = {1, 2}
    /\ manager.rooms["chat"].members = {2}
    /\ manager.clients[3].exists
    /\ manager.clients[3].Rooms = {}

\* m.rooms holds no room without members
NoEmptyRoom ==
    \A r \in RoomNames : manager.rooms[r].exists => manager.rooms[r].members # {}

\* C25: after RemoveConnection(id) the id is in no room's member set and not
\* in the connection map; and the registry never holds a room with an empty
\* member set.
C25_RemovePurgesAndNoEmptyRoom ==
    [][/\ \A id \in ConnIds :
            RemoveConnection(id) =>
                /\ ~manager'.clients[id].exists
                /\ \A r \in RoomNames : id \notin manager'.rooms[r].members
       /\ NoEmptyRoom']_vars

\* C25 witness: a connection that was a member of a room when a broadcast to
\* it began has since been removed, and the room, left without members, is
\* gone while another room lives on.
C25_Witness ==
    /\ manager.bc.pc = "send"
    /\ manager.bc.room = "chat"
    /\ \E c \in manager.bc.at : ~manager.clients[c].exists
    /\ ~manager.rooms["chat"].exists
    /\ manager.rooms["lobby"].exists

\* the connections a BroadcastToRoom call is to send to: the members of the
\* room at the time of the call whose id is not the excluded one
Targets == {c \in manager.bc.at : c # manager.bc.x}

\* the connections sent to so far
SentTo == {manager.bc.sent[i].to : i \in 1..Len(manager.bc.sent)}

\* C26: BroadcastToRoom sends once to every member of the room at the time of
\* the call whose id is not the excluded one, and to nobody else; a failed
\* send leaves the others to be sent; a room that does not exist gets nothing.
C26_BroadcastReachesRoom ==
    /\ SentTo \subseteq Targets
    /\ Cardinality(SentTo) = Len(manager.bc.sent)
    /\ manager.bc.pc = "send" => manager.bc.todo = Targets \ SentTo
    /\ manager.bc.pc = "done" => SentTo = Targets

\* C26 witness: a broadcast to a room of three with one excluded has ended,
\* its first send having failed.
C26_Witness ==
    /\ manager.bc.pc = "done"
    /\ Cardinality(manager.bc.at) = 3
    /\ manager.bc.x \in manager.bc.at
    /\ Len(manager.bc.sent) = 2
    /\ manager.bc.sent[1].err

----------------------------------------------------------------------------
\* pool.Watcher: the file watcher

\* the largest modification time on disk
MaxTime == 2

\* no file at this path (on disk), no entry for it (in w.mtimes)
Absent == 0

\* the files there may be under w.dirs
Files ==
    { [dir |-> "src", name |-> "a", ext |-> ".php"],
      [dir |-> "src", name |-> "b", ext |-> ".PHTML"],
      [dir |-> "src", name |-> "c", ext |-> ".txt"],
      [dir |-> "vendor", name |-> "d", ext |-> ".php"] }

\* strings.ToLower, on the extensions there are
ToLower(ext) == IF ext = ".PHTML" THEN ".phtml" ELSE ext

\* Watcher.isWatchedFile
isWatchedFile(path) == ToLower(path.ext) \in {".php", ".inc", ".phtml"}

\* the directories filepath.Walk is told to skip
SkipDir(path) == path.dir \in {"vendor", "node_modules", ".git"}

\* the disk: the modification time of each file, or Absent
Disks == [Files -> {Absent} \cup 1..MaxTime]

NoTimes == [f \in Files |-> Absent]

\* info.ModTime().After(oldTime), taken for "differs from"
Differs(t, oldTime) == t # oldTime

\* info.ModTime().After(oldTime)
After(t, oldTime) == t > oldTime

\* Watcher.scan: the walk over the files on disk, which sets w.mtimes[path]
\* for each watched file it meets
scan(disk, mtimes) ==
    [f \in Files |->
        IF disk[f] # Absent /\ ~SkipDir(f) /\ isWatchedFile(f) THEN disk[f]
        ELSE mtimes[f]]

\* detectChanges' walk over the files not yet visited: currentFiles and
\* changed
RECURSIVE walk(_, _, _, _)
walk(todo, disk, mtimes, acc) ==
    IF todo = {} THEN acc
    ELSE LET path == CHOOSE f \in todo : TRUE
             seen == disk[path] # Absent /\ ~SkipDir(path) /\ isWatchedFile(path)
         IN  walk(todo \ {path}, disk, mtimes,
                  IF ~seen THEN acc
                  ELSE [currentFiles |-> [acc.currentFiles EXCEPT ![path] = disk[path]],
                        changed |-> \/ acc.changed
                                    \/ IF mtimes[path] # Absent
                                       THEN After(disk[path], mtimes[path])
                                       ELSE TRUE])

\* Watcher.detectChanges: the walk, then the files of w.mtimes that the walk
\* did not meet; the new w.mtimes and the result
detectChanges(disk, mtimes) ==
    LET w == walk(Files, disk, mtimes, [currentFiles |-> NoTimes, changed |-> FALSE])
        deleted == \E path \in Files :
                      mtimes[path] # Absent /\ w.currentFiles[path] = Absent
    IN  [mtimes |-> w.currentFiles, changed |-> w.changed \/ deleted]

\* NewWatcher over some disk: invoked counts the onChange calls of the last
\* tick, before the mtimes that tick compared with
InitWatcher ==
    /\ cfg \in Configs
    /\ handler = NoHandler
    /\ wire = NoWire
    /\ manager = NewManager
    /\ config = NoConfig
    /\ PoolNew
    /\ watcher \in [pc : {"new"}, disk : Disks, mtimes : {NoTimes},
                    before : {NoTimes}, invoked : {0}]

\* Watcher.Start: w.scan(), then the goroutine
WatcherStart ==
    /\ watcher.pc = "new"
    /\ watcher' = [watcher EXCEPT !.pc = "run",
                                  !.mtimes = scan(watcher.disk, @)]
    /\ UNCHANGED <<cfg, handler, config, wire, manager, workers, available, closed, cancelled,
                   nextID, totalRequests, busyWorkers, wstate, jobs, mu, proc,
                   execs, tasks, wd, starter, reloader, panicked, ops, hist>>

\* a file is written, created or deleted, or its time set back
DiskChange(path, t) ==
    /\ watcher.pc # "stopped"
    /\ t # watcher.disk[path]
    /\ watcher' = [watcher EXCEPT !.disk[path] = t]
    /\ UNCHANGED <<cfg, handler, config, wire, manager, workers, available, closed, cancelled,
                   nextID, totalRequests, busyWorkers, wstate, jobs, mu, proc,
                   execs, tasks, wd, starter, reloader, panicked, ops, hist>>

\* case <-ticker.C: if w.detectChanges() { w.onChange() }
WatcherTick ==
    /\ watcher.pc = "run"
    /\ LET d == detectChanges(watcher.disk, watcher.mtimes)
       IN  watcher' = [watcher EXCEPT !.mtimes = d.mtimes,
                                      !.before = watcher.mtimes,
                                      !.invoked = IF d.changed THEN 1 ELSE 0]
    /\ UNCHANGED <<cfg, handler, config, wire, manager, workers, available, closed, cancelled,
                   nextID, totalRequests, busyWorkers, wstate, jobs, mu, proc,
                   execs, tasks, wd, starter, reloader, panicked, ops, hist>>

\* Watcher.Stop: w.cancel(), and the goroutine returns
WatcherStop ==
    /\ watcher.pc = "run"
    /\ watcher' = [watcher EXCEPT !.pc = "stopped"]
    /\ UNCHANGED <<cfg, handler, config, wire, manager, workers, available, closed, cancelled,
                   nextID, totalRequests, busyWorkers, wstate, jobs, mu, proc,
                   execs, tasks, wd, starter, reloader, panicked, ops, hist>>

NextWatcher ==
    \/ WatcherStart
    \/ \E path \in Files, t \in {Absent} \cup 1..MaxTime : DiskChange(path, t)
    \/ WatcherTick
    \/ WatcherStop

\* the watcher over a disk that changes
SpecWatcher == InitWatcher /\ [][NextWatcher]_vars

\* the watched files: those a walk sets down when they are on disk
Watched == {f \in Files : f.dir = "src" /\ f.ext \in {".php", ".PHTML"}}

\* the disk differs from the snapshot: a watched file is newer, or new, or a
\* tracked file is gone
Changed(disk, snapshot) ==
    \/ \E f \in Watched :
          disk[f] # Absent /\ snapshot[f] # Absent /\ disk[f] > snapshot[f]
    \/ \E f \in Watched : disk[f] # Absent /\ snapshot[f] = Absent
    \/ \E f \in Files : snapshot[f] # Absent /\ disk[f] = Absent

\* C27: a tick invokes the callback at most once, and does so if and only if
\* a watched file is newer than in the previous snapshot, or new, or a tracked
\* file is gone; the snapshot becomes the current scan, so that a tick over an
\* unchanged tree invokes nothing.
C27_TickReportsChange ==
    [][WatcherTick =>
        /\ watcher'.invoked \in {0, 1}
        /\ watcher'.invoked = 1 <=> Changed(watcher.disk, watcher.mtimes)
        /\ \A f \in Files :
              watcher'.mtimes[f] = IF f \in Watched THEN watcher.disk[f] ELSE Absent
        /\ ~Changed(watcher.disk, watcher'.mtimes)]_vars

\* C27 witness: the last tick, over a tree in which a watched file had an
\* older time than in the snapshot, invoked nothing.
C27_Witness ==
    /\ watcher.pc = "run"
    /\ watcher.invoked = 0
    /\ \E f \in Watched : watcher.before[f] > watcher.mtimes[f]
                          /\ watcher.mtimes[f] # Absent

----------------------------------------------------------------------------
\* config.Validate

\* the largest worker and job count tried; the smallest is -1
MaxCount == 2

Counts == -1..MaxCount

\* the Configs yaml.Unmarshal may have left: Workers is len(c.Workers)
Loaded ==
    [Pool : [MinWorkers : Counts, MaxWorkers : Counts, MaxJobs : -1..1],
     PHP : [Worker : {"", "worker.php"}],
     Workers : {0, 1},
     Server : [Address : {"", "0.0.0.0:8080"}],
     WebSocket : [Enabled : BOOLEAN, Worker : {"", "ws.php"}]]

\* c.Pool.MinWorkers < 1, with zero let through
NoMinimum(c) == c.Pool.MinWorkers < 0

\* c.Pool.MinWorkers < 1
TooFewWorkers(c) == c.Pool.MinWorkers < 1

\* Config.Validate: the error, or "nil"
Validate(c) ==
    IF TooFewWorkers(c) THEN "pool.min_workers must be >= 1"
    ELSE IF c.Pool.MaxWorkers < c.Pool.MinWorkers
    THEN "pool.max_workers must be >= pool.min_workers"
    ELSE IF c.Pool.MaxJobs < 0 THEN "pool.max_jobs must be >= 0"
    ELSE IF c.PHP.Worker = "" /\ c.Workers = 0
    THEN "php.worker or workers[] is required"
    ELSE IF c.Server.Address = "" THEN "server.address is required"
    ELSE IF c.WebSocket.Enabled /\ c.WebSocket.Worker = ""
    THEN "websocket.worker is required when websocket is enabled"
    ELSE "nil"

\* Load has read and parsed a file
InitConfig ==
    /\ cfg \in Configs
    /\ handler = NoHandler
    /\ wire = NoWire
    /\ manager = NewManager
    /\ watcher = NoWatcher
    /\ PoolNew
    /\ config \in [pc : {"parsed"}, c : Loaded, err : {"nil"}]

\* if err := cfg.Validate(); err != nil { return nil, ... }; return cfg, nil
LoadValidate ==
    /\ config.pc = "parsed"
    /\ config' = [config EXCEPT !.pc = "returned", !.err = Validate(config.c)]
    /\ UNCHANGED <<cfg, handler, wire, manager, watcher, workers, available, closed,
                   cancelled, nextID, totalRequests, busyWorkers, wstate, jobs,
                   mu, proc, execs, tasks, wd, starter, reloader, panicked,
                   ops, hist>>

\* Load on every Config
SpecConfig == InitConfig /\ [][LoadValidate]_vars

----------------------------------------------------------------------------
\* The availability channel and its producers

\* some producer stands at its p.available <- w
Sending ==
    \/ \E e \in Execs : e.pc = "enqueue"
    \/ \E t \in Tasks : t.kind = "replace" /\ t.pc = "enqueue"
    \/ wd.pc = "enqueue"
    \/ reloader.pc = "enqueue"

\* C29: no producer ever blocks on the availability channel: whenever Exec,
\* replaceWorker, autoScale or Reload stands at its enqueue, the channel holds
\* fewer than max_workers workers.
C29_NoProducerBlocks == Sending => Len(available) < cfg.MaxWorkers

----------------------------------------------------------------------------
\* A worker's pipes and its mutex

\* Worker.Stop writes WORKER_STOP to the stdin of worker w and closes it
StopWrites(w) == proc[w] = "running" /\ proc'[w] = "stopping"

\* C30: every read from and write to a worker's pipes is made under the
\* worker's mutex, so no two are in progress at once: Stop's WORKER_STOP is
\* never written while a turn holds the mutex of the worker.
C30_PipesUnderMutex ==
    [][\A w \in WorkerIds : StopWrites(w) => ~mu[w]]_vars

----------------------------------------------------------------------------
\* The worker state machine

\* C31: a worker's state goes from Busy back to Idle only once the RESPONSE
\* and the WORKER_READY after it were both read: while a Pool.Exec still
\* waits for the post-response WORKER_READY of its worker, and at the end of
\* a turn that failed on its write or its read, the worker does not report
\* Idle, and a failed write leaves the job count as it was.
C31_IdleOnlyAfterReady ==
    /\ [](\A e \in Execs : e.pc = "ready" => wstate[e.w] # StateIdle)
    /\ [][\A e \in Execs :
            TurnFinish(e, "err") =>
                /\ wstate'[e.w] # StateIdle
                /\ e.tpc = "wfail" => jobs'[e.w] = jobs[e.w]]_vars

\* C32: Stopped is terminal: once Stop has set a worker's state to Stopped, no
\* later step changes it, not even the end of a turn that was still running
\* on the worker when it was stopped.
C32_StoppedIsTerminal ==
    [][\A w \in WorkerIds :
          wstate[w] = StateStopped => wstate'[w] = StateStopped]_vars

----------------------------------------------------------------------------
\* NewWorker's wait for the first frame of the new process

\* a NewWorker that takes any frame for WORKER_READY
AnyFirstFrame(first) == first # "err"

\* NewWorker returns the handle: protocol.ReadFrame(stdout) gave a frame, and
\* its type is WORKER_READY; otherwise cmd.Process.Kill() and an error
FirstFrameReady(first) == first = TypeWorkerReady

\* p.activeWorkers: spawnWorker and removeWorker move it in the critical
\* section in which they append to and cut from p.workers
activeWorkers == Len(workers)

\* Pool.spawnWorker, where first is what the first read on the stdout of the
\* new process yields
spawnWorkerFirst(first) ==
    IF FirstFrameReady(first)
    THEN spawnWorker
    ELSE spawnFails /\ UNCHANGED workers

\* replaceWorker: w, err := p.spawnWorker(); if err != nil { return };
\* p.available <- w
ReplaceSpawnFirst(t, first) ==
    /\ Alive
    /\ Running(t) /\ t.kind = "replace" /\ t.pc = "spawn"
    /\ spawnWorkerFirst(first)
    /\ IF ~FirstFrameReady(first)
       THEN /\ tasks' = Exit(t)
            /\ UNCHANGED <<available, panicked>>
       ELSE IF CanSend
       THEN /\ Send(nextID + 1)
            /\ tasks' = Exit(t)
       ELSE /\ tasks' = Step(t, [t EXCEPT !.pc = "enqueue", !.new = nextID + 1])
            /\ UNCHANGED <<available, panicked>>
    /\ UNCHANGED <<cfg, handler, config, watcher, manager, wire, closed, cancelled, totalRequests, busyWorkers, execs,
                   wd, starter, reloader, ops, hist>>

NextSpawn ==
    \/ NextRun
    \/ \E t \in Tasks, first \in Outcomes : ReplaceSpawnFirst(t, first)

\* the running pool, where the first frame of a replacement is up to the
\* new process
SpecSpawn == Init /\ [][NextSpawn]_vars

----------------------------------------------------------------------------
\* The watchdog's autoScale

\* C34: one watchdog tick performs at most one scale event: it spawns and
\* enqueues exactly one worker (only when the sampled busy/total ratio is at
\* least 80% and total_workers < max), or it dequeues and retires exactly one
\* worker (only when the ratio is at most 20% and total_workers > min), or it
\* does nothing; no sample allows both, and none allows any with
\* total_workers = 0.
C34_OneScaleEventPerTick ==
    /\ [](\A total \in 0..(MaxOps + 2), busy \in -1..(MaxOps + 1) :
            /\ ~(ScaleUp(total, busy) /\ ScaleDown(total, busy))
            /\ total = 0 => ~ScaleUp(total, busy) /\ ~ScaleDown(total, busy))
    /\ [][wd.pc = "scale" /\ wd' # wd =>
            LET total == Len(workers)
                busy == busyWorkers
            IN  \/ /\ total > 0 /\ busy * 100 >= 80 * total
                   /\ total < cfg.MaxWorkers
                   /\ workers' = Append(workers, nextID + 1)
                   /\ wd'.pc = "enqueue" /\ wd'.new = nextID + 1
                   /\ available' = available /\ tasks' = tasks
                \/ /\ total > 0 /\ busy * 100 <= 20 * total
                   /\ total > cfg.MinWorkers
                   /\ available # <<>>
                   /\ available' = Tail(available)
                   /\ tasks' = tasks (+) SetToBag({Task("retire", "stop", Head(available),
                                                         NilWorker, <<>>)})
                   /\ workers' = workers /\ wd'.pc = "wait"
                \/ /\ wd'.pc = "wait"
                   /\ UNCHANGED <<workers, available, tasks>>]_vars
    /\ [][wd.pc = "enqueue" /\ wd' # wd =>
            /\ available' = Append(available, wd.new)
            /\ wd'.pc = "wait"
            /\ UNCHANGED <<workers, tasks>>]_vars

\* C34 witness: a tick has scaled down: the goroutine that retires the worker
\* it took from the channel runs, and the watchdog waits for its next tick
\* with the live set still at max_workers.
C34_Witness ==
    /\ \E t \in Tasks : t.kind = "retire"
    /\ wd.pc = "wait"
    /\ cfg.MinWorkers < cfg.MaxWorkers
    /\ Len(workers) = cfg.MaxWorkers

\* the workers an autoScale goroutine is retiring, in the bag of goroutines b
Retiring(b) == { t.old : t \in { u \in BagToSet(b) : u.kind = "retire" } }

\* C35: auto-scale down never takes the live worker set below min: after
\* every scale-down of a watchdog tick, also one that fires while the worker
\* retired by the previous tick is still being stopped and is still in the
\* live set, the live workers that are not being retired number at least min.
C35_ScaleDownKeepsMin ==
    [][wd.pc = "scale" /\ available' # available =>
          Cardinality(SeqToSet(workers') \ Retiring(tasks')) >= cfg.MinWorkers]_vars

----------------------------------------------------------------------------
\* A worker process that dies on its own

\* The process of an idle worker dies (a crash, a kill from outside, the
\* PHP side's exit on its memory limit).  Nobody has called cmd.Wait: the
\* handle's cmd.ProcessState is still nil.  One death is explored.
ProcCrash(w) ==
    /\ Alive
    /\ proc[w] = "running"
    /\ wstate[w] = StateIdle
    /\ \A v \in WorkerIds : proc[v] # "dead"
    /\ proc' = [proc EXCEPT ![w] = "dead"]
    /\ UNCHANGED <<cfg, handler, config, watcher, manager, wire, workers, available, closed, cancelled, nextID,
                   totalRequests, busyWorkers, wstate, jobs, mu, execs, tasks,
                   wd, starter, reloader, panicked, ops, hist>>

\* a goroutine is in Worker.Stop of the worker w, at cmd.Wait
InStop(w) ==
    \E t \in Tasks :
        /\ t.pc = "remove"
        /\ \/ t.kind \in {"replace", "retire"} /\ t.old = w
           \/ t.kind = "drain" /\ Head(t.todo) = w

\* Worker.Stop on a worker whose process had died: cmd.Wait returns at once
\* and sets cmd.ProcessState
StopDead(w) ==
    /\ Alive
    /\ proc[w] = "dead"
    /\ InStop(w)
    /\ proc' = [proc EXCEPT ![w] = "exited"]
    /\ UNCHANGED <<cfg, handler, config, watcher, manager, wire, workers, available, closed, cancelled, nextID,
                   totalRequests, busyWorkers, wstate, jobs, mu, execs, tasks,
                   wd, starter, reloader, panicked, ops, hist>>

NextCrash ==
    \/ NextRun
    \/ \E w \in WorkerIds : ProcCrash(w)
    \/ \E w \in WorkerIds : StopDead(w)

\* the running pool where a worker process may die on its own, every
\* goroutine is scheduled fairly and the watchdog ticks
FairCrash ==
    /\ Init /\ [][NextCrash]_vars
    /\ WF_vars(StartWorker)
    /\ WF_vars(ExecRuns)
    /\ WF_vars(ReloadSpawn \/ ReloadEnqueue)
    /\ WF_vars(DrainStep)
    /\ WF_vars(ReplaceStep)
    /\ WF_vars(RetireStep)
    /\ WF_vars(WatchdogStep)
    /\ WF_vars(\E w \in WorkerIds : ProcExit(w) \/ StopDead(w))
    /\ WF_vars(\E e \in Execs, o \in Outcomes : TurnFinish(e, o))
    /\ WF_vars(WatchdogTick)

\* the process of the live, idle worker w has died
DeadIdle(w) == InSeq(w, workers) /\ wstate[w] = StateIdle /\ proc[w] = "dead"

\* C36: if the process of an Idle worker has died, the watchdog marks that
\* worker for replacement within a bounded number of ticks, without an Exec
\* having to be dispatched onto it; a Busy worker is never marked by the
\* health check.
C36_DeadIdleWorkerMarked ==
    /\ (\E w \in WorkerIds : DeadIdle(w)) ~> ~(\E w \in WorkerIds : DeadIdle(w))
    /\ [][\A w \in WorkerIds :
            wd.pc = "wait" /\ wd'.pc = "scale" /\ wstate[w] = StateBusy =>
                CopiesIn(ReplaceTask(w), tasks') = CopiesIn(ReplaceTask(w), tasks)]_vars

----------------------------------------------------------------------------
\* A websocket peer that does not read

\* c.Send(data) of the broadcast loop does not return: c.Conn.WriteMessage,
\* which has no write deadline, waits for the peer c to take the data.  The
\* send in progress is the last of bc.sent.
BroadcastSendBlocks(c) ==
    /\ manager.bc.pc = "send"
    /\ c \in manager.bc.todo
    /\ manager' = [manager EXCEPT !.bc.todo = @ \ {c},
                        !.bc.sent = Append(@, [to |-> c, err |-> FALSE]),
                        !.bc.pc = "blocked"]
    /\ UNCHANGED <<cfg, handler, config, watcher, wire, workers, available, closed, cancelled, nextID,
                   totalRequests, busyWorkers, wstate, jobs, mu, proc, execs,
                   tasks, wd, starter, reloader, panicked, ops, hist>>

\* the peer takes the data (or its connection is closed): the blocked
\* c.Send(data) returns, the loop goes on
BroadcastSendReturns ==
    /\ manager.bc.pc = "blocked"
    /\ manager' = [manager EXCEPT
                        !.bc.pc = IF manager.bc.todo = {} THEN "done" ELSE "send"]
    /\ UNCHANGED <<cfg, handler, config, watcher, wire, workers, available, closed, cancelled, nextID,
                   totalRequests, busyWorkers, wstate, jobs, mu, proc, execs,
                   tasks, wd, starter, reloader, panicked, ops, hist>>

NextWsSlow ==
    \/ NextWs
    \/ \E c \in ConnIds : BroadcastSendBlocks(c)
    \/ BroadcastSendReturns

\* the Manager with peers that may stop reading, for a while or for good: the
\* goroutine that broadcasts is scheduled, a peer is under no obligation
FairWsSlow ==
    /\ Init /\ [][NextWsSlow]_vars
    /\ WF_vars(\E c \in ConnIds, failed \in BOOLEAN : BroadcastSend(c, failed))

\* C37: a slow or blocked peer does not stall the others: in a broadcast, a
\* send to one member that blocks does not keep the data from the remaining
\* members, which are all sent to in the end.
C37_BlockedPeerStallsNobody ==
    (manager.bc.pc = "blocked" /\ manager.bc.todo # {}) ~> (manager.bc.todo = {})

----------------------------------------------------------------------------
\* the replaceWorker goroutines of the worker w that are past their
\* cancellation check: each spawns, or has spawned, one replacement
Respawning(w) ==
    { t \in Tasks : t.kind = "replace" /\ t.old = w /\ t.pc \in {"spawn", "enqueue"} }

\* C38: each worker is replaced at most once: however many places trigger the
\* replacement of one worker (the health check, an Exec error, a request
\* timeout), one replacement worker is spawned for it.
C38_ReplacedAtMostOnce ==
    \A w \in WorkerIds :
        BagCardinality([t \in Respawning(w) |-> CopiesIn(t, tasks)]) <= 1

\* C39: no goroutine ever sends a worker on the availability channel after
\* Stop has closed it (the send would crash the process): not an Exec that
\* finishes its turn, not a replaceWorker past its cancellation check, not an
\* auto-scale step, not a Reload.
C39_NoSendAfterClose == panicked # "send on closed channel"

----------------------------------------------------------------------------
\* websocket.Handler: one ServeHTTP and one readPump goroutine per connection,
\* on a Manager whose RemoveConnection anybody may call

\* Bound: the messages a connection's readPump reads
MaxMsgs == 1

\* handler.pc[id]: where the goroutines of the connection stand: "none" (not
\* upgraded yet), "stored" (AddConnection has stored the client), "reading"
\* (readPump's loop), "removing" (its deferred RemoveConnection is called),
\* "closed".  handler.frames[id]: the events of the frames handed to
\* m.phpForward for the connection, in order.  handler.closing[id]: the
\* RemoveConnection calls that deleted the client and have yet to forward.
\* History: handler.early, the connections RemoveConnection deleted from
\* outside while their readPump was in its loop; handler.missed, the ids a
\* RemoveConnection call did not find.
NewHandler ==
    [pc |-> [id \in ConnIds |-> "none"],
     frames |-> [id \in ConnIds |-> <<>>],
     closing |-> [id \in ConnIds |-> 0],
     early |-> {},
     missed |-> {}]

InitHandler ==
    /\ cfg \in Configs
    /\ wire = NoWire
    /\ manager = NewManager
    /\ watcher = NoWatcher
    /\ config = NoConfig
    /\ PoolNew
    /\ handler = NewHandler

\* ServeHTTP: client := h.manager.AddConnection(conn, r), up to
\* m.mu.Unlock(): a fresh id, the client stored
ServeStore(id) ==
    /\ handler.pc[id] = "none"
    /\ manager' = [manager EXCEPT !.clients[id] = [exists |-> TRUE, Rooms |-> {}]]
    /\ handler' = [handler EXCEPT !.pc[id] = "stored"]
    /\ UNCHANGED <<cfg, config, watcher, wire, workers, available, closed, cancelled, nextID,
                   totalRequests, busyWorkers, wstate, jobs, mu, proc, execs,
                   tasks, wd, starter, reloader, panicked, ops, hist>>

\* AddConnection: m.phpForward(frame) with Event "connect"; return client;
\* go h.readPump(client)
ServeConnect(id) ==
    /\ handler.pc[id] = "stored"
    /\ handler' = [handler EXCEPT !.pc[id] = "reading",
                                  !.frames[id] = Append(@, "connect")]
    /\ UNCHANGED <<cfg, config, watcher, manager, wire, workers, available, closed, cancelled, nextID,
                   totalRequests, busyWorkers, wstate, jobs, mu, proc, execs,
                   tasks, wd, starter, reloader, panicked, ops, hist>>

\* how many "message" events there are in the frames fs
Messages(fs) == Cardinality({ i \in 1..Len(fs) : fs[i] = "message" })

\* readPump: client.Conn.ReadMessage() gave a message;
\* h.manager.HandleMessage(client, message): m.phpForward(frame) with Event
\* "message" (the forwarder answers with no frame)
PumpMessage(id) ==
    /\ handler.pc[id] = "reading"
    /\ Messages(handler.frames[id]) < MaxMsgs
    /\ handler' = [handler EXCEPT !.frames[id] = Append(@, "message")]
    /\ UNCHANGED <<cfg, config, watcher, manager, wire, workers, available, closed, cancelled, nextID,
                   totalRequests, busyWorkers, wstate, jobs, mu, proc, execs,
                   tasks, wd, starter, reloader, panicked, ops, hist>>

\* readPump: client.Conn.ReadMessage() failed; break; the deferred function
\* runs
PumpEnds(id) ==
    /\ handler.pc[id] = "reading"
    /\ handler' = [handler EXCEPT !.pc[id] = "removing"]
    /\ UNCHANGED <<cfg, config, watcher, manager, wire, workers, available, closed, cancelled, nextID,
                   totalRequests, busyWorkers, wstate, jobs, mu, proc, execs,
                   tasks, wd, starter, reloader, panicked, ops, hist>>

\* a RemoveConnection that forwards "close" whether the client exists or not
AlwaysClosing(m, id) == 1

\* RemoveConnection(id) up to m.mu.Unlock(): how many "close" frames the call
\* goes on to forward: none if !exists (it has returned)
Closing(m, id) == IF m.clients[id].exists THEN 1 ELSE 0

\* RemoveConnection(id) up to m.mu.Unlock(), called by readPump's deferred
\* function (byPump) or by anybody else.  Nobody else knows the id of a
\* client before AddConnection has forwarded its connect frame.
RemoveLocked(id, byPump) ==
    /\ IF byPump THEN handler.pc[id] = "removing" ELSE handler.pc[id] # "stored"
    /\ manager' = IF ~manager.clients[id].exists THEN manager
             ELSE [manager EXCEPT
                     !.rooms = PurgeRooms(@, manager.clients[id].Rooms, id),
                     !.clients[id] = NoClient]
    /\ handler' = [handler EXCEPT
                     !.closing[id] = @ + Closing(manager, id),
                     !.pc[id] = IF byPump THEN "closed" ELSE @,
                     !.early = IF manager.clients[id].exists /\ handler.pc[id] = "reading"
                               THEN @ \cup {id} ELSE @,
                     !.missed = IF manager.clients[id].exists THEN @ ELSE @ \cup {id}]
    /\ UNCHANGED <<cfg, config, watcher, wire, workers, available, closed, cancelled, nextID,
                   totalRequests, busyWorkers, wstate, jobs, mu, proc, execs,
                   tasks, wd, starter, reloader, panicked, ops, hist>>

\* RemoveConnection after m.mu.Unlock(): m.phpForward(frame) with Event
\* "close"
RemoveForward(id) ==
    /\ handler.closing[id] > 0
    /\ handler' = [handler EXCEPT !.closing[id] = @ - 1,
                                  !.frames[id] = Append(@, "close")]
    /\ UNCHANGED <<cfg, config, watcher, manager, wire, workers, available, closed, cancelled, nextID,
                   totalRequests, busyWorkers, wstate, jobs, mu, proc, execs,
                   tasks, wd, starter, reloader, panicked, ops, hist>>

\* Manager.JoinRoom, called for a connection the Handler serves
HandlerJoin(id, room) ==
    /\ handler.pc[id] = "reading"
    /\ manager' = IF ~manager.clients[id].exists THEN manager
             ELSE [manager EXCEPT
                     !.rooms[room] = [exists |-> TRUE,
                                      members |-> @.members \cup {id}],
                     !.clients[id].Rooms = @ \cup {room}]
    /\ UNCHANGED <<cfg, handler, config, watcher, wire, workers, available, closed, cancelled, nextID,
                   totalRequests, busyWorkers, wstate, jobs, mu, proc, execs,
                   tasks, wd, starter, reloader, panicked, ops, hist>>

NextHandler ==
    \/ \E id \in ConnIds : ServeStore(id)
    \/ \E id \in ConnIds : ServeConnect(id)
    \/ \E id \in ConnIds : PumpMessage(id)
    \/ \E id \in ConnIds : PumpEnds(id)
    \/ \E id \in ConnIds, byPump \in BOOLEAN : RemoveLocked(id, byPump)
    \/ \E id \in ConnIds : RemoveForward(id)
    \/ \E id \in ConnIds : HandlerJoin(id, "lobby")

\* the Handler serving connections while RemoveConnection is called from
\* anywhere
SpecHandler == InitHandler /\ [][NextHandler]_vars

\* the frames fs are the beginning of: connect, messages, close
Ordered(fs) ==
    \A i \in 1..Len(fs) :
        /\ fs[i] = "connect" <=> i = 1
        /\ fs[i] = "close" => i = Len(fs)

Events(fs, e) == Cardinality({ i \in 1..Len(fs) : fs[i] = e })

====
